---- MODULE Spec2Model ----
(***************************************************************************)
(* Onloq capture pipeline: the code-change pipeline (trackability filter,  *)
(* unified-diff generation, Change Processor, thread-per-event Debouncer)  *)
(* of src/src/logger/code_logger.py and the Activity State Tracker of      *)
(* src/src/logger/activity_logger.py.                                      *)
(*                                                                         *)
(* Text is modelled as a sequence of atoms.  An atom is a string that      *)
(* holds no line terminator, or the one-character string "\n"; the        *)
(* operations on text (splitlines, suffix, lower, join) work on the atoms  *)
(* the way the Python operations work on characters.                       *)
(***************************************************************************)
EXTENDS Integers, Sequences, FiniteSets, TLC

VARIABLES
    \* CodeChangeHandler (code_logger.py:18-29)
    file_extensions,    \* self.file_extensions: set of suffixes
    ignored_dirs,       \* self.ignored_dirs: set of path segments
    file_cache,         \* self.file_cache: path -> last known content
    change_queue,       \* self.change_queue: path -> pending change type
    \* environment of the code pipeline
    disk,               \* the watched tree: path -> file state
    code_log,           \* records handed to Database.log_code_change
    tasks,              \* the process_after_delay threads started so far
    raw_events,         \* history: raw events delivered to the handler
    calls,              \* history: _process_file_change calls made by tasks
    observer,           \* CodeLogger.start: "new" | "seeded" | "started" | "stopped"
    \* ActivityLogger (activity_logger.py:31-51)
    running,
    last_activity_time,
    current_app,
    current_window,
    current_domain,
    app_start_time,
    \* threads and environment of the activity tracker
    loop,               \* the thread running start()/_monitor_loop: pc and locals
    stopper,            \* the thread calling stop(): pc and number of calls made
    listeners,          \* "new" | "started" | "stopped" (pynput listeners)
    activity_log,       \* records handed to log_activity / log_system_event
    truth,              \* history: dwell time per application, from the samples
    \* Config (utils/config.py:10-13) and its file
    config,             \* self.config: the dictionary, option -> value
    config_file,        \* the file at self.config_path
    \* DailyScheduler (scheduler/daily_scheduler.py:19-29), the jobs of the
    \* schedule module, its loop threads and the thread that calls it
    scheduler,
    \* shared
    now,                \* the clock, in time units (TicksPerSecond per second)
    arg,                \* pure-function harness: the input
    res                 \* pure-function harness: the result

vars == <<file_extensions, ignored_dirs, file_cache, change_queue, disk, code_log,
          tasks, raw_events, calls, running, last_activity_time, current_app,
          current_window, current_domain, app_start_time, loop, stopper,
          listeners, activity_log, truth, now, arg, res, observer, config,
          config_file, scheduler>>

codeVars == <<file_extensions, ignored_dirs, file_cache, change_queue, disk,
              code_log, tasks, raw_events, calls, observer>>
trackerVars == <<running, last_activity_time, current_app, current_window,
                 current_domain, app_start_time, loop, stopper, listeners,
                 activity_log, truth>>
harnessVars == <<arg, res>>
configVars == <<config, config_file>>
schedVars == <<scheduler>>

-----------------------------------------------------------------------------
(* Generic helpers *)

Min(a, b) == IF a < b THEN a ELSE b
Max(a, b) == IF a > b THEN a ELSE b
Last(s) == s[Len(s)]
Range(s) == {s[i] : i \in 1..Len(s)}

RECURSIVE Flatten(_)
\* "".join(list of strings)
Flatten(ss) == IF ss = <<>> THEN <<>> ELSE Head(ss) \o Flatten(Tail(ss))

RECURSIVE JoinAtoms(_)
\* the Python string an atom sequence stands for
JoinAtoms(s) == IF s = <<>> THEN "" ELSE Head(s) \o JoinAtoms(Tail(s))

\* Python slice s[lo:hi], 0-based and half-open
Slice(s, lo, hi) == IF hi <= lo THEN <<>> ELSE SubSeq(s, lo + 1, hi)

-----------------------------------------------------------------------------
(* Trackability filter: CodeChangeHandler._should_track_file *)

NL == "\n"
DOT == "."

\* str.lower() on the atoms of the model's alphabet
LowerAtom(a) ==
    CASE a = "PY" -> "py"
      [] a = "Py" -> "py"
      [] a = "TXT" -> "txt"
      [] OTHER -> a

Lower(s) == [i \in 1..Len(s) |-> LowerAtom(s[i])]

\* str.rfind("."): 0-based index of the last dot, -1 when there is none
RFindDot(name) ==
    LET idx == {i \in 1..Len(name) : name[i] = DOT}
    IN  IF idx = {} THEN -1 ELSE (CHOOSE i \in idx : \A j \in idx : j <= i) - 1

\* pathlib.PurePath.suffix of the final component
PathSuffix(name) ==
    LET i == RFindDot(name)
    IN  IF 0 < i /\ i < Len(name) - 1 THEN Slice(name, i, Len(name)) ELSE <<>>

\* A path is its sequence of parts (pathlib.PurePath.parts); the last part is
\* the file name.
PathName(path) == Last(path)

ShouldTrackAlways(path) == TRUE

\* _should_track_file(file_path): the suffix of the path is lowercased, the
\* configured sets are used as they are
should_track_file(path) ==
    IF Lower(PathSuffix(PathName(path))) \notin file_extensions
    THEN FALSE
    ELSE \A i \in 1..Len(path) : path[i] \notin ignored_dirs

-----------------------------------------------------------------------------
(* Diff generation: CodeChangeHandler._generate_diff, which calls          *)
(* difflib.unified_diff(old_lines, new_lines, fromfile, tofile,            *)
(* lineterm="") and joins what it yields.  Indices are Python's: 0-based,  *)
(* ranges half-open.                                                       *)

RECURSIVE SplitLinesFrom(_, _)
\* str.splitlines(keepends=True): cur is the line read so far
SplitLinesFrom(s, cur) ==
    IF s = <<>> THEN (IF cur = <<>> THEN <<>> ELSE <<cur>>)
    ELSE IF Head(s) = NL
         THEN <<Append(cur, NL)>> \o SplitLinesFrom(Tail(s), <<>>)
         ELSE SplitLinesFrom(Tail(s), Append(cur, Head(s)))

SplitLines(s) == SplitLinesFrom(s, <<>>)

\* SequenceMatcher.find_longest_match without junk: the longest block
\* a[i:i+k] == b[j:j+k] in the window, of those the one starting earliest in
\* a, of those the one starting earliest in b; <<alo, blo, 0>> when none.
FindLongestMatch(a, b, alo, ahi, blo, bhi) ==
    LET cands == {c \in (alo..(ahi - 1)) \X (blo..(bhi - 1)) \X (1..Min(ahi - alo, bhi - blo)) :
                    /\ c[1] + c[3] <= ahi
                    /\ c[2] + c[3] <= bhi
                    /\ \A d \in 0..(c[3] - 1) : a[c[1] + d + 1] = b[c[2] + d + 1]}
        Better(c, d) == \/ c[3] > d[3]
                        \/ c[3] = d[3] /\ c[1] < d[1]
                        \/ c[3] = d[3] /\ c[1] = d[1] /\ c[2] <= d[2]
    IN  IF cands = {} THEN <<alo, blo, 0>>
        ELSE CHOOSE c \in cands : \A d \in cands : Better(c, d)

RECURSIVE MatchingBlocksIn(_, _, _, _, _, _)
RECURSIVE MatchingBlocksAround(_, _, _, _, _, _, _)

\* SequenceMatcher.get_matching_blocks: the queue of windows, in sorted order
MatchingBlocksIn(a, b, alo, ahi, blo, bhi) ==
    MatchingBlocksAround(a, b, alo, ahi, blo, bhi,
                         FindLongestMatch(a, b, alo, ahi, blo, bhi))

\* the windows left and right of the match m = <<i, j, k>>
MatchingBlocksAround(a, b, alo, ahi, blo, bhi, m) ==
    IF m[3] = 0 THEN <<>>
    ELSE (IF alo < m[1] /\ blo < m[2]
          THEN MatchingBlocksIn(a, b, alo, m[1], blo, m[2]) ELSE <<>>)
         \o <<m>>
         \o (IF m[1] + m[3] < ahi /\ m[2] + m[3] < bhi
             THEN MatchingBlocksIn(a, b, m[1] + m[3], ahi, m[2] + m[3], bhi) ELSE <<>>)

RECURSIVE CollapseBlocks(_, _)
\* get_matching_blocks: adjacent blocks are merged; cur is the block being grown
CollapseBlocks(blocks, cur) ==
    IF blocks = <<>> THEN (IF cur[3] > 0 THEN <<cur>> ELSE <<>>)
    ELSE LET nb == Head(blocks)
         IN  IF cur[1] + cur[3] = nb[1] /\ cur[2] + cur[3] = nb[2]
             THEN CollapseBlocks(Tail(blocks), <<cur[1], cur[2], cur[3] + nb[3]>>)
             ELSE (IF cur[3] > 0 THEN <<cur>> ELSE <<>>)
                  \o CollapseBlocks(Tail(blocks), nb)

MatchingBlocks(a, b) ==
    CollapseBlocks(MatchingBlocksIn(a, b, 0, Len(a), 0, Len(b)), <<0, 0, 0>>)
        \o << <<Len(a), Len(b), 0>> >>

Opcode(tag, i1, i2, j1, j2) == [tag |-> tag, i1 |-> i1, i2 |-> i2, j1 |-> j1, j2 |-> j2]

RECURSIVE OpcodesFrom(_, _, _)
\* SequenceMatcher.get_opcodes: (i, j) is where the previous block ended
OpcodesFrom(blocks, i, j) ==
    IF blocks = <<>> THEN <<>>
    ELSE LET ai == Head(blocks)[1]
             bj == Head(blocks)[2]
             size == Head(blocks)[3]
             gap == IF i < ai /\ j < bj THEN <<Opcode("replace", i, ai, j, bj)>>
                    ELSE IF i < ai THEN <<Opcode("delete", i, ai, j, bj)>>
                    ELSE IF j < bj THEN <<Opcode("insert", i, ai, j, bj)>>
                    ELSE <<>>
             eq == IF size > 0 THEN <<Opcode("equal", ai, ai + size, bj, bj + size)>>
                   ELSE <<>>
         IN  gap \o eq \o OpcodesFrom(Tail(blocks), ai + size, bj + size)

Opcodes(a, b) == OpcodesFrom(MatchingBlocks(a, b), 0, 0)

\* an equal opcode cut down to its last n lines, and to its first n lines
KeepTail(c, n) == Opcode(c.tag, Max(c.i1, c.i2 - n), c.i2, Max(c.j1, c.j2 - n), c.j2)
KeepHead(c, n) == Opcode(c.tag, c.i1, Min(c.i2, c.i1 + n), c.j1, Min(c.j2, c.j1 + n))

RECURSIVE GroupsFrom(_, _, _)
\* get_grouped_opcodes: the loop that cuts a group inside a long equal run
GroupsFrom(codes, group, n) ==
    IF codes = <<>>
    THEN (IF group # <<>> /\ ~(Len(group) = 1 /\ group[1].tag = "equal")
          THEN <<group>> ELSE <<>>)
    ELSE IF Head(codes).tag = "equal" /\ Head(codes).i2 - Head(codes).i1 > n + n
         THEN <<Append(group, KeepHead(Head(codes), n))>>
              \o GroupsFrom(Tail(codes), <<KeepTail(Head(codes), n)>>, n)
         ELSE GroupsFrom(Tail(codes), Append(group, Head(codes)), n)

\* get_grouped_opcodes: "if not codes: codes = [("equal", 0, 1, 0, 1)]"
CodesOrEqual(codes) == IF codes = <<>> THEN <<Opcode("equal", 0, 1, 0, 1)>> ELSE codes

\* get_grouped_opcodes: "fixup leading and trailing groups if they show no changes"
FixupLeading(codes, n) ==
    IF codes[1].tag = "equal" THEN [codes EXCEPT ![1] = KeepTail(codes[1], n)] ELSE codes

FixupTrailing(codes, n) ==
    IF codes[Len(codes)].tag = "equal"
    THEN [codes EXCEPT ![Len(codes)] = KeepHead(codes[Len(codes)], n)] ELSE codes

\* SequenceMatcher.get_grouped_opcodes(n)
GroupedOpcodes(a, b, n) ==
    GroupsFrom(FixupTrailing(FixupLeading(CodesOrEqual(Opcodes(a, b)), n), n), <<>>, n)

\* difflib._format_range_unified
FormatRangeUnified(start, stop) ==
    LET beginning == start + 1
        length == stop - start
    IN  IF length = 1 THEN ToString(beginning)
        ELSE IF length = 0 THEN ToString(beginning - 1) \o "," \o ToString(length)
        ELSE ToString(beginning) \o "," \o ToString(length)

\* the lines one opcode yields: the prefix and the line, terminator kept
OpcodeLines(a, b, c) ==
    LET olds(tag) == [i \in 1..(c.i2 - c.i1) |-> <<tag>> \o a[c.i1 + i]]
        news == [j \in 1..(c.j2 - c.j1) |-> <<"+">> \o b[c.j1 + j]]
    IN  IF c.tag = "equal" THEN olds(" ")
        ELSE (IF c.tag \in {"replace", "delete"} THEN olds("-") ELSE <<>>)
             \o (IF c.tag \in {"replace", "insert"} THEN news ELSE <<>>)

RECURSIVE GroupLines(_, _, _)
GroupLines(a, b, group) ==
    IF group = <<>> THEN <<>>
    ELSE OpcodeLines(a, b, Head(group)) \o GroupLines(a, b, Tail(group))

HunkHeader(group) ==
    LET f == group[1]
        l == group[Len(group)]
    IN  "@@ -" \o FormatRangeUnified(f.i1, l.i2) \o " +"
               \o FormatRangeUnified(f.j1, l.j2) \o " @@"

RECURSIVE HunksFrom(_, _, _, _)
HunksFrom(a, b, groups, lineterm) ==
    IF groups = <<>> THEN <<>>
    ELSE << <<HunkHeader(Head(groups))>> \o lineterm >>
         \o GroupLines(a, b, Head(groups))
         \o HunksFrom(a, b, Tail(groups), lineterm)

\* the context lines difflib.unified_diff keeps around a change (n=3)
ContextLines == 3

\* difflib.unified_diff: the two file-header lines, yielded before the first
\* hunk, then the hunks; nothing at all when there is no group
DiffOfGroups(a, b, groups, fromfile, tofile, lineterm) ==
    IF groups = <<>> THEN <<>>
    ELSE << <<"--- " \o fromfile>> \o lineterm,
            <<"+++ " \o tofile>> \o lineterm >>
         \o HunksFrom(a, b, groups, lineterm)

\* difflib.unified_diff(a, b, fromfile, tofile, lineterm=lineterm): the
\* strings it yields, each an atom sequence
UnifiedDiff(a, b, fromfile, tofile, lineterm) ==
    DiffOfGroups(a, b, GroupedOpcodes(a, b, ContextLines), fromfile, tofile, lineterm)

\* _generate_diff(old_content, new_content, file_path)
generate_diff(old_content, new_content, file_path) ==
    LET old_lines == SplitLines(old_content)
        new_lines == SplitLines(new_content)
        name == JoinAtoms(PathName(file_path))
    IN  Flatten(UnifiedDiff(old_lines, new_lines, "a/" \o name, "b/" \o name, <<>>))

-----------------------------------------------------------------------------
(* Applying a unified diff, the way patch(1) reads one: the text is cut    *)
(* into lines at the line terminators; a "--- " line, a "+++ " line, then  *)
(* hunks, each a "@@ -s,l +s,l @@" line followed by l old-side and l       *)
(* new-side lines told apart by their first character.  Used to state the  *)
(* round-trip property of the diff generator.                              *)

MaxLen == 3

Rejected == <<"<patch rejected>">>

HunkRanges == (0..(MaxLen + 1)) \X (0..(MaxLen + 1)) \X (0..(MaxLen + 1)) \X (0..(MaxLen + 1))

\* "@@ -s1,l1 +s2,l2 @@", a length of 1 left out
HunkText(t) ==
    LET r(s, l) == IF l = 1 THEN ToString(s) ELSE ToString(s) \o "," \o ToString(l)
    IN  "@@ -" \o r(t[1], t[2]) \o " +" \o r(t[3], t[4]) \o " @@"

IsHunkLine(line) ==
    /\ Len(line) = 2
    /\ line[2] = NL
    /\ \E t \in HunkRanges : HunkText(t) = line[1]

ParseHunk(line) == CHOOSE t \in HunkRanges : HunkText(t) = line[1]

RECURSIVE ApplyHunks(_, _, _, _, _)
RECURSIVE ApplyBody(_, _, _, _, _, _, _)

\* L: the patch's lines; idx: the next one; pos: old lines consumed; out: new lines
ApplyHunks(L, idx, old_lines, pos, out) ==
    IF idx > Len(L) THEN Flatten(out \o Slice(old_lines, pos, Len(old_lines)))
    ELSE IF ~IsHunkLine(L[idx]) THEN Rejected
    ELSE LET t == ParseHunk(L[idx])
             start == IF t[2] = 0 THEN t[1] ELSE t[1] - 1
         IN  IF start < pos \/ start > Len(old_lines) THEN Rejected
             ELSE ApplyBody(L, idx + 1, old_lines, start,
                            out \o Slice(old_lines, pos, start), t[2], t[4])

ApplyBody(L, idx, old_lines, pos, out, remOld, remNew) ==
    IF remOld = 0 /\ remNew = 0 THEN ApplyHunks(L, idx, old_lines, pos, out)
    ELSE IF idx > Len(L) THEN Rejected
    ELSE LET tag == L[idx][1]
             text == Tail(L[idx])
             oldHere == pos < Len(old_lines) /\ old_lines[pos + 1] = text
         IN  IF tag = " " /\ remOld > 0 /\ remNew > 0 /\ oldHere
             THEN ApplyBody(L, idx + 1, old_lines, pos + 1, Append(out, text),
                            remOld - 1, remNew - 1)
             ELSE IF tag = "-" /\ remOld > 0 /\ oldHere
             THEN ApplyBody(L, idx + 1, old_lines, pos + 1, out, remOld - 1, remNew)
             ELSE IF tag = "+" /\ remNew > 0
             THEN ApplyBody(L, idx + 1, old_lines, pos, Append(out, text),
                            remOld, remNew - 1)
             ELSE Rejected

ApplyDiff(text, old_content, name) ==
    LET L == SplitLines(text)
    IN  IF text = <<>> THEN old_content
        ELSE IF Len(L) < 3 THEN Rejected
        ELSE IF L[1] # <<"--- a/" \o name, NL>> \/ L[2] # <<"+++ b/" \o name, NL>>
        THEN Rejected
        ELSE ApplyHunks(L, 3, SplitLines(old_content), 0, <<>>)

-----------------------------------------------------------------------------
(* Parked values of the state a specification does not use *)

NoFile == [exists |-> FALSE, readable |-> FALSE, content |-> <<>>]

ParkCode ==
    /\ file_extensions = {}
    /\ ignored_dirs = {}
    /\ file_cache = <<>>
    /\ change_queue = <<>>
    /\ disk = <<>>
    /\ code_log = <<>>
    /\ tasks = <<>>
    /\ raw_events = <<>>
    /\ calls = <<>>
    /\ observer = "new"

ParkTracker ==
    /\ running = FALSE
    /\ last_activity_time = 0
    /\ current_app = "None"
    /\ current_window = "None"
    /\ current_domain = "None"
    /\ app_start_time = -1
    /\ loop = [pc |-> "parked"]
    /\ stopper = [pc |-> "parked"]
    /\ listeners = "new"
    /\ activity_log = <<>>
    /\ truth = <<>>

ParkHarness ==
    /\ arg = <<>>
    /\ res = [done |-> FALSE, val |-> <<>>]

ParkConfig ==
    /\ config = <<>>
    /\ config_file = "parked"

ParkSched == scheduler = "parked"

-----------------------------------------------------------------------------
(* SpecDiff: _generate_diff on every pair of contents of at most MaxLen    *)
(* atoms over the alphabet {x, y, newline}                                 *)

Alphabet == {"x", "y", NL}

Contents == UNION {[1..n -> Alphabet] : n \in 0..MaxLen}

DiffPath == << <<"a", DOT, "py">> >>

InitDiff ==
    /\ ParkCode
    /\ ParkTracker
    /\ ParkConfig
    /\ ParkSched
    /\ now = 0
    /\ arg \in [old : Contents, new : Contents, path : {DiffPath}]
    /\ res = [done |-> FALSE, val |-> <<>>]

DiffCall ==
    /\ ~res.done
    /\ res' = [done |-> TRUE, val |-> generate_diff(arg.old, arg.new, arg.path)]
    /\ UNCHANGED <<codeVars, trackerVars, now, arg, configVars, schedVars>>

NextDiff == DiffCall

SpecDiff == InitDiff /\ [][NextDiff]_vars

\* C7: for any pair of old and new contents, applying the generated diff text
\* to the old content reproduces the new content exactly (the delete-diff is
\* the case new = "": it reproduces the empty content).
C7_DiffRoundTrip ==
    res.done => ApplyDiff(res.val, arg.old, JoinAtoms(PathName(arg.path))) = arg.new

\* The same lines with difflib's default lineterm="\n" in place of
\* lineterm="": the text the applier accepts.  It shows what the round trip
\* needs (every line of both contents ends with a newline).
NewlineTerminated(c) == c = <<>> \/ Last(c) = NL

DiffAppliesWithLineterm ==
    (NewlineTerminated(arg.old) /\ NewlineTerminated(arg.new)) =>
        LET name == JoinAtoms(PathName(arg.path))
            text == Flatten(UnifiedDiff(SplitLines(arg.old), SplitLines(arg.new),
                                        "a/" \o name, "b/" \o name, <<NL>>))
        IN  ApplyDiff(text, arg.old, name) = arg.new

-----------------------------------------------------------------------------
(* SpecTrack: _should_track_file on every path of at most MaxDirs          *)
(* directory segments, under every configuration of a small family.  The   *)
(* configuration is what Config.get_file_extensions() and                  *)
(* get_ignored_directories() return: the lists of the JSON file, as        *)
(* written there (code_logger.py:21-22 copies them into sets unchanged).   *)

MaxDirs == 2

Segments == {<<"project">>, <<"node_modules">>, <<"node_modules", "_backup">>}

FileNames == {<<"x", DOT, "py">>, <<"x", DOT, "PY">>, <<"x", DOT, "txt">>,
              <<DOT, "py">>, <<"x", DOT>>, <<"node_modules">>}

TrackPaths ==
    {dirs \o <<f>> : dirs \in UNION {[1..n -> Segments] : n \in 0..MaxDirs},
                     f \in FileNames}

ExtensionConfigs == {{}, {<<DOT, "py">>}, {<<DOT, "PY">>},
                     {<<DOT, "py">>, <<DOT, "txt">>}}

IgnoredConfigs == {{}, {<<"node_modules">>}, {<<"node_modules">>, <<"project">>}}

InitTrack ==
    /\ file_extensions \in ExtensionConfigs
    /\ ignored_dirs \in IgnoredConfigs
    /\ file_cache = <<>>
    /\ change_queue = <<>>
    /\ disk = <<>>
    /\ code_log = <<>>
    /\ tasks = <<>>
    /\ raw_events = <<>>
    /\ calls = <<>>
    /\ observer = "new"
    /\ ParkTracker
    /\ ParkConfig
    /\ ParkSched
    /\ now = 0
    /\ arg \in TrackPaths
    /\ res = [done |-> FALSE, val |-> FALSE]

TrackCall ==
    /\ ~res.done
    /\ res' = [done |-> TRUE, val |-> should_track_file(arg)]
    /\ UNCHANGED <<codeVars, trackerVars, now, arg, configVars, schedVars>>

NextTrack == TrackCall

SpecTrack == InitTrack /\ [][NextTrack]_vars

\* the extension of the path, compared case-insensitively, is in the allowlist
ExtensionAllowed(path) ==
    \E e \in file_extensions : Lower(e) = Lower(PathSuffix(PathName(path)))

\* no segment of the path is exactly equal to an ignored-directory name
NoIgnoredSegment(path) == \A i \in 1..Len(path) : path[i] \notin ignored_dirs

\* C8: a path is tracked iff its extension, compared case-insensitively, is in
\* the configured allowlist and no segment of the path equals an ignored
\* directory name (a segment that only contains one as a substring does not
\* exclude the path).
C8_TrackedIff ==
    res.done => (res.val <=> (ExtensionAllowed(arg) /\ NoIgnoredSegment(arg)))

-----------------------------------------------------------------------------
(* Change Processor: CodeChangeHandler._process_file_change                *)

ChangeTypes == {"created", "modified", "deleted"}

\* Python's None where a number is expected (file_size of a deleted file)
None == -1

\* the disk: a file that exists has a content and can or cannot be opened
File(content, readable) == [exists |-> TRUE, readable |-> readable, content |-> content]

\* os.path.getsize, for text of one-byte characters
FileSize(f) == Len(f.content)

CanReadAlways(f) == TRUE

\* _read_file_content: the text, or nothing when neither open() succeeds
CanRead(f) == f.exists /\ f.readable

CacheHas(path) == path \in DOMAIN file_cache

CacheGetAlwaysEmpty(path) == <<>>

\* self.file_cache.get(file_path, "")
CacheGet(path) == IF CacheHas(path) THEN file_cache[path] ELSE <<>>

CacheSetDropped(path, content) == file_cache

\* a write that stores the empty content instead of the new one
CacheSetEmpty(path, content) ==
    [q \in DOMAIN file_cache \cup {path} |-> IF q = path THEN <<>> ELSE file_cache[q]]

\* self.file_cache[file_path] = new_content
CacheSet(path, content) ==
    [q \in DOMAIN file_cache \cup {path} |-> IF q = path THEN content ELSE file_cache[q]]

CacheDelKept(path) == file_cache

\* del self.file_cache[file_path], guarded by "in"
CacheDel(path) == [q \in DOMAIN file_cache \ {path} |-> file_cache[q]]

ShouldLogAlways(diff_content) == TRUE

\* "if diff_content:" (code_logger.py:117)
ShouldLog(diff_content) == diff_content # <<>>

\* the record handed to Database.log_code_change
CodeChangeEvent(path, change_type, file_size, diff_content) ==
    [file_path |-> path, change_type |-> change_type, file_size |-> file_size,
     diff_content |-> diff_content]

LogChange(path, change_type, file_size, diff_content) ==
    code_log' = IF ShouldLog(diff_content)
                THEN Append(code_log, CodeChangeEvent(path, change_type, file_size,
                                                      diff_content))
                ELSE code_log

\* _process_file_change(file_path, change_type): what it does to the cache and
\* to the sink, reading the disk
process_file_change(path, change_type) ==
    IF ~should_track_file(path)
    THEN UNCHANGED <<file_cache, code_log>>
    ELSE IF change_type = "deleted"
    THEN /\ file_cache' = CacheDel(path)
         /\ LogChange(path, change_type, None, generate_diff(CacheGet(path), <<>>, path))
    ELSE IF ~disk[path].exists \/ ~CanRead(disk[path])
    THEN UNCHANGED <<file_cache, code_log>>
    ELSE LET new_content == disk[path].content
             old_content == CacheGet(path)
         IN  IF old_content # new_content
             THEN /\ file_cache' = CacheSet(path, new_content)
                  /\ LogChange(path, change_type, FileSize(disk[path]),
                               generate_diff(old_content, new_content, path))
             ELSE UNCHANGED <<file_cache, code_log>>

InitializeFileCacheEmpty(tree) == <<>>

\* CodeLogger._initialize_file_cache: the walk over a tree
InitializeFileCache(tree) ==
    LET seeded == {p \in DOMAIN tree : should_track_file(p) /\ CanRead(tree[p])}
    IN  [p \in seeded |-> tree[p].content]

-----------------------------------------------------------------------------
(* SpecProc: the Change Processor called one call at a time, on a disk the *)
(* environment writes between the calls                                    *)

PathA == << <<"a", DOT, "py">> >>
PathIgnored == << <<"node_modules">>, <<"a", DOT, "py">> >>

ProcPaths == {PathA, PathIgnored}

ProcContents == {<<>>, <<"x", NL>>, <<"x", NL, "y", NL>>}

\* the states of a file of the tracked path: absent, unreadable, or readable
\* with one of the contents
FileStates == {NoFile, File(<<"x", NL>>, FALSE)} \cup {File(c, TRUE) : c \in ProcContents}

\* the states of the file under the ignored directory
IgnoredFileStates == {NoFile, File(<<"x", NL>>, TRUE)}

DiskStates == {d \in [ProcPaths -> FileStates] : d[PathIgnored] \in IgnoredFileStates}

DefaultExtensions == {<<DOT, "py">>}
DefaultIgnored == {<<"node_modules">>}

MaxProcCalls == 3

\* a call of the Change Processor, as the history keeps it
Call(path, change_type, task) ==
    [path |-> path, type |-> change_type, time |-> now, task |-> task,
     events |-> Len(raw_events), file |-> disk[path],
     cached |-> IF path \in DOMAIN file_cache THEN file_cache[path] ELSE <<>>,
     logged |-> Len(code_log)]

InitProc ==
    /\ file_extensions = DefaultExtensions
    /\ ignored_dirs = DefaultIgnored
    /\ disk \in DiskStates
    /\ file_cache = InitializeFileCache(disk)
    /\ change_queue = <<>>
    /\ code_log = <<>>
    /\ tasks = <<>>
    /\ raw_events = <<>>
    /\ calls = <<>>
    /\ observer = "new"
    /\ ParkTracker
    /\ ParkConfig
    /\ ParkSched
    /\ ParkHarness
    /\ now = 0

DiskWrite(p, f) ==
    /\ f # disk[p]
    /\ [disk EXCEPT ![p] = f] \in DiskStates
    /\ disk' = [disk EXCEPT ![p] = f]
    /\ UNCHANGED <<file_extensions, ignored_dirs, file_cache, change_queue, code_log,
                   tasks, raw_events, calls, trackerVars, harnessVars, now,
                   observer, configVars, schedVars>>

\* the history of SpecProc keeps the last two calls
LastTwo(s) == IF Len(s) <= 2 THEN s ELSE SubSeq(s, Len(s) - 1, Len(s))

\* one call; the clock counts the calls
Process(p, t) ==
    /\ now < MaxProcCalls
    /\ process_file_change(p, t)
    /\ calls' = LastTwo(Append(calls, Call(p, t, 0)))
    /\ now' = now + 1
    /\ UNCHANGED <<file_extensions, ignored_dirs, change_queue, disk, tasks,
                   raw_events, trackerVars, harnessVars,
                   observer, configVars, schedVars>>

NextProc ==
    \/ \E p \in ProcPaths, f \in FileStates : DiskWrite(p, f)
    \/ \E p \in ProcPaths, t \in ChangeTypes : Process(p, t)

SpecProc == InitProc /\ [][NextProc]_vars

\* the step is a call of the Change Processor; NewCall is that call
ProcStep == calls' # calls
NewCall == calls'[Len(calls')]

\* a call process(p, Created|Modified) on a trackable, existing, readable file
ReadsFile(c) ==
    /\ c.type \in {"created", "modified"}
    /\ should_track_file(c.path)
    /\ CanRead(c.file)

\* C5: process(p, Created|Modified) on a trackable, existing, readable file
\* whose content is identical to the cached content of p (no entry counting
\* as the empty string) emits no event and leaves the Snapshot Cache
\* unchanged; so two calls in a row on the same content emit at most one
\* event.
C5_IdenticalContentNoOp ==
    [][ProcStep =>
          /\ (ReadsFile(NewCall) /\ NewCall.file.content = NewCall.cached)
                 => (code_log' = code_log /\ file_cache' = file_cache)
          /\ (/\ calls # <<>>
              /\ ReadsFile(NewCall)
              /\ ReadsFile(Last(calls))
              /\ Last(calls).path = NewCall.path
              /\ Last(calls).file = NewCall.file)
                 => Len(code_log') - Last(calls).logged <= 1]_vars

\* C5 witness: a second call in a row on the same non-empty content, which
\* the cache already holds, after the first call logged it
C5_Witness ==
    \E k \in 2..Len(calls) :
        /\ ReadsFile(calls[k]) /\ ReadsFile(calls[k - 1])
        /\ calls[k].path = calls[k - 1].path
        /\ calls[k].file = calls[k - 1].file
        /\ calls[k].file.content = calls[k].cached
        /\ calls[k].cached # <<>>
        /\ calls[k].logged = calls[k - 1].logged + 1

\* C6: process(p, Created|Modified) on a trackable, existing, readable file
\* whose content differs from the cached content emits exactly one
\* CodeChangeEvent, carrying the diff from the cached content to the new
\* content and the file size; afterwards the cache entry of p is the new
\* content.
C6_ChangedContentLogged ==
    [][(ProcStep /\ ReadsFile(NewCall) /\ NewCall.file.content # NewCall.cached) =>
          /\ Len(code_log') = Len(code_log) + 1
          /\ SubSeq(code_log', 1, Len(code_log)) = code_log
          /\ Last(code_log') =
                CodeChangeEvent(NewCall.path, NewCall.type, Len(NewCall.file.content),
                                generate_diff(NewCall.cached, NewCall.file.content,
                                              NewCall.path))
          /\ Last(code_log').diff_content # <<>>
          /\ NewCall.path \in DOMAIN file_cache'
          /\ file_cache'[NewCall.path] = NewCall.file.content]_vars

\* C6 witness: a logged modification of a file whose cached content was not
\* empty
C6_Witness ==
    \E k \in 1..Len(calls) :
        /\ ReadsFile(calls[k])
        /\ calls[k].cached # <<>>
        /\ calls[k].file.content # calls[k].cached
        /\ Len(code_log) > calls[k].logged
        /\ code_log[calls[k].logged + 1].file_path = calls[k].path
        /\ calls[k].path \in DOMAIN file_cache

\* C10: every CodeChangeEvent handed to the sink has a non-empty
\* diff_content, whatever its change type and whatever was processed before.
C10_DiffNeverEmpty ==
    \A i \in 1..Len(code_log) : code_log[i].diff_content # <<>>

\* C10 witness: events of the three change types were handed to the sink
C10_Witness ==
    \A t \in ChangeTypes : \E i \in 1..Len(code_log) : code_log[i].change_type = t

-----------------------------------------------------------------------------
(* Spec: the Filesystem Watcher, the Debouncer and the Change Processor.   *)
(* A raw event is the change of a file on disk together with the watchdog  *)
(* callback (on_created, on_modified, on_deleted) it triggers; the         *)
(* callback runs _debounced_change, which records the change type and      *)
(* starts one thread.  A thread (process_after_delay) sleeps, then checks   *)
(* the Debounce Map, calls the Change Processor and clears the entry, as   *)
(* three steps other threads and callbacks interleave with: nothing in the *)
(* code makes them atomic.                                                 *)

\* time units per second
TicksPerSecond == 2

\* self.debounce_delay, in seconds
debounce_delay == 1

\* the quiet period in time units
Delay == debounce_delay * TicksPerSecond

MaxEvents == 3
MaxTime == 4

PipePaths == {PathA}

PipeContents == {<<"x", NL>>, <<"x", NL, "y", NL>>}

QueueHas(path) == path \in DOMAIN change_queue

\* self.change_queue[file_path] = change_type
QueueSet(path, change_type) ==
    [q \in DOMAIN change_queue \cup {path} |->
        IF q = path THEN change_type ELSE change_queue[q]]

\* a clearing that leaves the entry in the Debounce Map
QueueDelKept(path) == change_queue

\* del self.change_queue[file_path], guarded by "in"
QueueDel(path) == [q \in DOMAIN change_queue \ {path} |-> change_queue[q]]

\* a process_after_delay thread: what it was started for, when its sleep
\* ends, and where it is
Task(path, change_type) ==
    [path |-> path, type |-> change_type, wake |-> now + Delay, pc |-> "sleep"]

\* _debounced_change(file_path, change_type)
debounced_change(path, change_type) ==
    /\ change_queue' = QueueSet(path, change_type)
    /\ tasks' = Append(tasks, Task(path, change_type))
    /\ raw_events' = Append(raw_events,
                            [path |-> path, type |-> change_type, time |-> now])

Init ==
    /\ file_extensions = DefaultExtensions
    /\ ignored_dirs = DefaultIgnored
    /\ disk \in [PipePaths -> {NoFile, File(<<"x", NL>>, TRUE)}]
    /\ file_cache = InitializeFileCache(disk)
    /\ change_queue = <<>>
    /\ code_log = <<>>
    /\ tasks = <<>>
    /\ raw_events = <<>>
    /\ calls = <<>>
    /\ observer = "started"
    /\ ParkTracker
    /\ ParkConfig
    /\ ParkSched
    /\ ParkHarness
    /\ now = 0

\* a file is created on disk: on_created
FsCreated(p, c) ==
    /\ observer = "started"
    /\ Len(raw_events) < MaxEvents
    /\ ~disk[p].exists
    /\ disk' = [disk EXCEPT ![p] = File(c, TRUE)]
    /\ debounced_change(p, "created")
    /\ UNCHANGED <<file_extensions, ignored_dirs, file_cache, code_log, calls,
                   trackerVars, harnessVars, now,
                   observer, configVars, schedVars>>

\* a file is written (its content may stay the same): on_modified
FsModified(p, c) ==
    /\ observer = "started"
    /\ Len(raw_events) < MaxEvents
    /\ disk[p].exists
    /\ disk' = [disk EXCEPT ![p] = File(c, TRUE)]
    /\ debounced_change(p, "modified")
    /\ UNCHANGED <<file_extensions, ignored_dirs, file_cache, code_log, calls,
                   trackerVars, harnessVars, now,
                   observer, configVars, schedVars>>

\* a file is removed: on_deleted
FsDeleted(p) ==
    /\ observer = "started"
    /\ Len(raw_events) < MaxEvents
    /\ disk[p].exists
    /\ disk' = [disk EXCEPT ![p] = NoFile]
    /\ debounced_change(p, "deleted")
    /\ UNCHANGED <<file_extensions, ignored_dirs, file_cache, code_log, calls,
                   trackerVars, harnessVars, now,
                   observer, configVars, schedVars>>

\* "file_path in self.change_queue and self.change_queue[file_path] ==
\* change_type" (code_logger.py:140-141)
StillLatest(t) == QueueHas(t.path) /\ change_queue[t.path] = t.type

\* process_after_delay: the sleep is over, the thread checks the Debounce Map
TaskCheck(i) ==
    /\ tasks[i].pc = "sleep"
    /\ now >= tasks[i].wake
    /\ tasks' = [tasks EXCEPT ![i].pc = IF StillLatest(tasks[i]) THEN "process"
                                        ELSE "done"]
    /\ UNCHANGED <<file_extensions, ignored_dirs, file_cache, change_queue, disk,
                   code_log, raw_events, calls, trackerVars, harnessVars, now,
                   observer, configVars, schedVars>>

\* process_after_delay: the call of _process_file_change
TaskProcess(i) ==
    /\ tasks[i].pc = "process"
    /\ process_file_change(tasks[i].path, tasks[i].type)
    /\ calls' = Append(calls, Call(tasks[i].path, tasks[i].type, i))
    /\ tasks' = [tasks EXCEPT ![i].pc = "clear"]
    /\ UNCHANGED <<file_extensions, ignored_dirs, change_queue, disk, raw_events,
                   trackerVars, harnessVars, now,
                   observer, configVars, schedVars>>

\* process_after_delay: the entry is removed from the Debounce Map
TaskClear(i) ==
    /\ tasks[i].pc = "clear"
    /\ change_queue' = QueueDel(tasks[i].path)
    /\ tasks' = [tasks EXCEPT ![i].pc = "done"]
    /\ UNCHANGED <<file_extensions, ignored_dirs, file_cache, disk, code_log,
                   raw_events, calls, trackerVars, harnessVars, now,
                   observer, configVars, schedVars>>

\* time passes
Advance ==
    /\ now < MaxTime
    /\ now' = now + 1
    /\ UNCHANGED <<codeVars, trackerVars, harnessVars, configVars, schedVars>>

Next ==
    \/ \E p \in PipePaths, c \in PipeContents : FsCreated(p, c)
    \/ \E p \in PipePaths, c \in PipeContents : FsModified(p, c)
    \/ \E p \in PipePaths : FsDeleted(p)
    \/ \E i \in 1..Len(tasks) : TaskCheck(i)
    \/ \E i \in 1..Len(tasks) : TaskProcess(i)
    \/ \E i \in 1..Len(tasks) : TaskClear(i)
    \/ Advance

Spec == Init /\ [][Next]_vars

AllTasksDone == \A i \in 1..Len(tasks) : tasks[i].pc = "done"

EventsOn(p) == {i \in 1..Len(raw_events) : raw_events[i].path = p}

CallsOn(p) == {k \in 1..Len(calls) : calls[k].path = p}

SetMax(S) == CHOOSE x \in S : \A y \in S : y <= x

\* the raw events on p are one burst: they all arrive within one quiet window
OneBurst(p) ==
    /\ EventsOn(p) # {}
    /\ \A i, j \in EventsOn(p) : raw_events[j].time - raw_events[i].time < Delay

\* C1: a burst of N >= 1 raw events on p that all arrive within one quiet
\* window results in exactly one Change Processor call for p, and that call
\* carries the change type of the last event of the burst.
C1_BurstOneCall ==
    \A p \in PipePaths :
        (AllTasksDone /\ OneBurst(p)) =>
            /\ Cardinality(CallsOn(p)) = 1
            /\ \A k \in CallsOn(p) : calls[k].type = raw_events[SetMax(EventsOn(p))].type

\* C2: the debounce is trailing: a Change Processor call for p is made one
\* quiet period after the last raw event on p recorded before it, not one
\* quiet period after an earlier event of the burst.
C2_TrailingDebounce ==
    \A k \in 1..Len(calls) :
        LET before == {i \in 1..calls[k].events : raw_events[i].path = calls[k].path}
        IN  calls[k].time >= raw_events[SetMax(before)].time + Delay

-----------------------------------------------------------------------------
(* SpecTracker: the Activity State Tracker.  start() runs on its own       *)
(* thread (cli/main.py:87-88) and never returns while the loop runs;       *)
(* stop() is called from the main thread, by the signal handler and again  *)
(* by the "finally" of the run command (cli/main.py:75-80, 124-126); the   *)
(* input listeners call on_activity from their own threads.  Time is       *)
(* counted in time units, TicksPerSecond to the second.                    *)

\* settings "poll_interval_seconds" and "idle_threshold_minutes" * 60, scaled
\* down to seconds the clock of the model can reach
poll_interval == 1
idle_threshold == 1

PollTicks == poll_interval * TicksPerSecond
IdleTicks == idle_threshold * TicksPerSecond

MaxTrackTime == 8

\* the calls of stop() the command line makes
MaxStops == 2

\* how late, in time units, a sleep of the loop may return
MaxLate == 1

Browsers == {"chrome.exe"}

\* _extract_domain_from_title, on the titles of Windows
ExtractDomain(title, app_name) ==
    IF title = "None" THEN "None"
    ELSE IF app_name \notin Browsers THEN "None"
    ELSE IF title = "example.com - Chrome" THEN "example.com"
    ELSE "None"

WindowInfo(app, title) == [app |-> app, title |-> title, domain |-> ExtractDomain(title, app)]

\* what _get_active_window_info can return
NoWindow == [app |-> "None", title |-> "None", domain |-> "None"]
Windows == {NoWindow,
            WindowInfo("code.exe", "main.py"),
            WindowInfo("code.exe", "notes.md"),
            WindowInfo("chrome.exe", "example.com - Chrome")}

Apps == {w.app : w \in Windows} \ {"None"}

\* _get_active_window_info, the foreground window being w: an exception of
\* the query is caught and the empty sample returned
get_active_window_info(w, ok) == IF ok THEN w ELSE NoWindow

\* int(seconds) of a difference of two clock readings
IntSeconds(ticks) == ticks \div TicksPerSecond

\* a record handed to the sink; "time" is the sink's timestamp, "by" and
\* "flag" are history: the thread that emitted it and self.running then
ActivityEvent(event_type, application, window_title, website_domain, duration_seconds, by) ==
    [event_type |-> event_type, application |-> application,
     window_title |-> window_title, website_domain |-> website_domain,
     duration_seconds |-> duration_seconds, time |-> now, by |-> by, flag |-> running]

SystemEvent(event_type, by) == ActivityEvent(event_type, "None", "None", "None", 0, by)

FocusRecordsUnguarded(by) ==
    IF current_app # "None" /\ app_start_time # None
    THEN <<ActivityEvent("app_focus", current_app, current_window, current_domain,
                         IntSeconds(now - app_start_time), by)>>
    ELSE <<>>

\* "if self.current_app and self.app_start_time:" then "if duration > 0:":
\* the app_focus records for the interval in progress, none or one
FocusRecords(by) ==
    IF current_app # "None" /\ app_start_time # None
       /\ IntSeconds(now - app_start_time) > 0
    THEN <<ActivityEvent("app_focus", current_app, current_window, current_domain,
                         IntSeconds(now - app_start_time), by)>>
    ELSE <<>>

WebsiteRecordsBeforeUpdate(w, domain_now) ==
    IF w.domain # "None" /\ w.domain # current_domain
    THEN <<ActivityEvent("website_visit", w.app, "None", w.domain, 0, "loop")>>
    ELSE <<>>

\* "if new_domain and new_domain != self.current_domain:", evaluated after
\* self.current_domain has been given new_domain
WebsiteRecords(w, domain_now) ==
    IF w.domain # "None" /\ w.domain # domain_now
    THEN <<ActivityEvent("website_visit", w.app, "None", w.domain, 0, "loop")>>
    ELSE <<>>

LogAppChangeKeepStart(w) ==
    /\ current_app' = w.app
    /\ current_window' = w.title
    /\ current_domain' = w.domain
    /\ app_start_time' = app_start_time
    /\ activity_log' = activity_log \o FocusRecords("loop")

\* _log_app_change(new_app, new_title, new_domain)
log_app_change(w) ==
    /\ current_app' = w.app
    /\ current_window' = w.title
    /\ current_domain' = w.domain
    /\ app_start_time' = now
    /\ activity_log' = activity_log \o FocusRecords("loop")
                           \o WebsiteRecords(w, current_domain')

\* "if time_since_activity > self.idle_threshold:"
IsIdle(time_since_activity) == time_since_activity > IdleTicks

IdleResetSkipped(current_time) == last_activity_time

\* "self.last_activity_time = current_time"
IdleReset(current_time) == current_time

\* _check_idle_state
check_idle_state ==
    IF IsIdle(now - last_activity_time)
    THEN /\ activity_log' = Append(activity_log,
                ActivityEvent("idle", "None", "None", "None",
                              IntSeconds(now - last_activity_time), "loop"))
         /\ last_activity_time' = IdleReset(now)
    ELSE UNCHANGED <<activity_log, last_activity_time>>

StopNextEndFirst(pc) ==
    CASE pc = "flag" -> "end" [] pc = "end" -> "flush" [] OTHER -> "ready"

\* stop(): after the flag the flush, after the flush the session_end
StopNext(pc) ==
    CASE pc = "flag" -> "flush" [] pc = "flush" -> "end" [] OTHER -> "ready"

\* the dwell the samples show: the application in the foreground since the
\* sample that first saw it, until a sample sees another one or stop() is
\* called
TruthInit == [dwell |-> [a \in Apps |-> 0], app |-> "None", since |-> 0, open |-> TRUE,
              pending |-> "None", logged |-> 0]

Credit(t) == IF t.app = "None" THEN t.dwell
             ELSE [t.dwell EXCEPT ![t.app] = @ + (now - t.since)]

TruthSample(w) ==
    IF ~truth.open \/ w.app = truth.app THEN truth
    ELSE [truth EXCEPT !.dwell = Credit(truth), !.app = w.app, !.since = now]

\* pending: the application whose focus interval, of a whole second or more,
\* is in progress when stop() is called; logged: the records emitted by then
TruthStop ==
    [truth EXCEPT !.dwell = Credit(truth), !.app = "None", !.open = FALSE,
                  !.logged = Len(activity_log),
                  !.pending = IF app_start_time # None
                                 /\ IntSeconds(now - app_start_time) > 0
                              THEN current_app ELSE "None"]

InitTracker ==
    /\ ParkCode
    /\ ParkHarness
    /\ ParkConfig
    /\ ParkSched
    /\ now = 0
    /\ running = FALSE
    /\ last_activity_time = 0
    /\ current_app = "None"
    /\ current_window = "None"
    /\ current_domain = "None"
    /\ app_start_time = None
    /\ loop = [pc |-> "start", wake |-> 0, failed |-> FALSE]
    /\ stopper = [pc |-> "ready", calls |-> 0]
    /\ listeners = "new"
    /\ activity_log = <<>>
    /\ truth = TruthInit

\* start(): "self.running = True; self.last_activity_time = time.time()"
StartFlag ==
    /\ loop.pc = "start"
    /\ ~running
    /\ running' = TRUE
    /\ last_activity_time' = now
    /\ loop' = [loop EXCEPT !.pc = "announce"]
    /\ UNCHANGED <<current_app, current_window, current_domain, app_start_time,
                   stopper, listeners, activity_log, truth, now, codeVars, harnessVars, configVars, schedVars>>

\* start(): the listeners are started and session_start is logged
StartAnnounce ==
    /\ loop.pc = "announce"
    /\ listeners' = "started"
    /\ activity_log' = Append(activity_log, SystemEvent("session_start", "loop"))
    /\ loop' = [loop EXCEPT !.pc = "while"]
    /\ UNCHANGED <<running, last_activity_time, current_app, current_window,
                   current_domain, app_start_time, stopper, truth, now, codeVars,
                   harnessVars, configVars, schedVars>>

\* _monitor_loop: "while self.running:"
LoopCheck ==
    /\ loop.pc = "while"
    /\ loop' = [loop EXCEPT !.pc = IF running THEN "sample" ELSE "exited"]
    /\ UNCHANGED <<running, last_activity_time, current_app, current_window,
                   current_domain, app_start_time, stopper, listeners, activity_log,
                   truth, now, codeVars, harnessVars, configVars, schedVars>>

\* _monitor_loop, with the window info w the query returned: it is compared
\* with the current one; failed records that the query had raised
SampleTaken(w, failed) ==
    /\ IF w.app # current_app \/ w.title # current_window \/ w.domain # current_domain
       THEN log_app_change(w)
       ELSE UNCHANGED <<current_app, current_window, current_domain, app_start_time,
                        activity_log>>
    /\ truth' = TruthSample(w)
    /\ loop' = [loop EXCEPT !.pc = "idle", !.failed = failed]
    /\ UNCHANGED <<running, last_activity_time, stopper, listeners, now, codeVars,
                   harnessVars, configVars, schedVars>>

\* _monitor_loop: the foreground window is w and the query succeeds
LoopSample(w) ==
    /\ loop.pc = "sample"
    /\ SampleTaken(get_active_window_info(w, TRUE), FALSE)

\* _monitor_loop: the query of the foreground window raises
LoopSampleFailed ==
    /\ loop.pc = "sample"
    /\ \E w \in Windows : SampleTaken(get_active_window_info(w, FALSE), TRUE)

\* _monitor_loop: _check_idle_state, then the sleep begins
LoopIdle ==
    /\ loop.pc = "idle"
    /\ check_idle_state
    /\ loop' = [loop EXCEPT !.pc = "sleep", !.wake = now + PollTicks, !.failed = FALSE]
    /\ UNCHANGED <<running, current_app, current_window, current_domain,
                   app_start_time, stopper, listeners, truth, now, codeVars,
                   harnessVars, configVars, schedVars>>

\* _monitor_loop: time.sleep(self.poll_interval) returns
LoopWake ==
    /\ loop.pc = "sleep"
    /\ now >= loop.wake
    /\ loop' = [loop EXCEPT !.pc = "while"]
    /\ UNCHANGED <<running, last_activity_time, current_app, current_window,
                   current_domain, app_start_time, stopper, listeners, activity_log,
                   truth, now, codeVars, harnessVars, configVars, schedVars>>

\* stop(): "if not self.running: return", else "self.running = False"
StopFlag ==
    /\ stopper.pc = "ready"
    /\ stopper.calls < MaxStops
    /\ running' = FALSE
    /\ stopper' = [pc |-> IF running THEN StopNext("flag") ELSE "ready",
                   calls |-> stopper.calls + 1]
    /\ truth' = IF running THEN TruthStop ELSE truth
    /\ UNCHANGED <<last_activity_time, current_app, current_window, current_domain,
                   app_start_time, loop, listeners, activity_log, now, codeVars,
                   harnessVars, configVars, schedVars>>

\* stop(): "Log final app duration"
StopFlush ==
    /\ stopper.pc = "flush"
    /\ activity_log' = activity_log \o FocusRecords("stop")
    /\ stopper' = [stopper EXCEPT !.pc = StopNext("flush")]
    /\ UNCHANGED <<running, last_activity_time, current_app, current_window,
                   current_domain, app_start_time, loop, listeners, truth, now,
                   codeVars, harnessVars, configVars, schedVars>>

\* stop(): the listeners are stopped and session_end is logged
StopEnd ==
    /\ stopper.pc = "end"
    /\ listeners' = "stopped"
    /\ activity_log' = Append(activity_log, SystemEvent("session_end", "stop"))
    /\ stopper' = [stopper EXCEPT !.pc = StopNext("end")]
    /\ UNCHANGED <<running, last_activity_time, current_app, current_window,
                   current_domain, app_start_time, loop, truth, now, codeVars,
                   harnessVars, configVars, schedVars>>

\* on_activity, called by a listener thread
Input ==
    /\ listeners = "started"
    /\ last_activity_time # now
    /\ last_activity_time' = now
    /\ UNCHANGED <<running, current_app, current_window, current_domain,
                   app_start_time, loop, stopper, listeners, activity_log, truth,
                   now, codeVars, harnessVars, configVars, schedVars>>

\* time passes, while the loop sleeps (it wakes at most MaxLate time units
\* late) or after it has exited; the steps of a tick and of a call of stop()
\* take less than one time unit
TrackerAdvance ==
    /\ now < MaxTrackTime
    /\ stopper.pc = "ready"
    /\ \/ loop.pc = "exited"
       \/ loop.pc = "sleep" /\ now < loop.wake + MaxLate
    /\ now' = now + 1
    /\ UNCHANGED <<codeVars, trackerVars, harnessVars, configVars, schedVars>>

NextTracker ==
    \/ StartFlag
    \/ StartAnnounce
    \/ LoopCheck
    \/ \E w \in Windows : LoopSample(w)
    \/ LoopSampleFailed
    \/ LoopIdle
    \/ LoopWake
    \/ StopFlag
    \/ StopFlush
    \/ StopEnd
    \/ Input
    \/ TrackerAdvance

SpecTracker == InitTracker /\ [][NextTracker]_vars

RECURSIVE FocusSum(_, _)
\* the sum of duration_seconds over the app_focus records of application a
FocusSum(log, a) ==
    IF log = <<>> THEN 0
    ELSE (IF Head(log).event_type = "app_focus" /\ Head(log).application = a
          THEN Head(log).duration_seconds ELSE 0) + FocusSum(Tail(log), a)

Abs(x) == IF x < 0 THEN -x ELSE x

\* the run start() -> ticks -> stop() is over
RunOver == loop.pc = "exited" /\ stopper.pc = "ready" /\ ~truth.open

Kinds(type) == {i \in 1..Len(activity_log) : activity_log[i].event_type = type}

\* C3: after a run start() -> ticks -> stop(), for every application the sum
\* of duration_seconds over its AppFocus events is within one poll interval
\* of its dwell time, and the interval in progress when stop() was called
\* is emitted once stop() has been called.
C3_DwellWithinPoll ==
    RunOver =>
        /\ \A a \in Apps :
              Abs(FocusSum(activity_log, a) * TicksPerSecond - truth.dwell[a]) <= PollTicks
        /\ truth.pending # "None" =>
              \E i \in Kinds("app_focus") : /\ i > truth.logged
                                            /\ activity_log[i].application = truth.pending

\* the step is the idle check of a tick
IdleStep == loop.pc = "idle" /\ loop'.pc = "sleep"

IdleEmitted ==
    /\ Len(activity_log') = Len(activity_log) + 1
    /\ Last(activity_log').event_type = "idle"

\* C4: on every tick an Idle event is emitted iff the time since
\* last_activity_time exceeds idle_threshold, and firing sets
\* last_activity_time to now; no other step emits an Idle event; two Idle
\* events are never less than a full idle_threshold apart.
C4_IdleIffThreshold ==
    [][/\ IdleStep => /\ IdleEmitted <=> (now - last_activity_time > IdleTicks)
                      /\ IdleEmitted => last_activity_time' = now
                      /\ ~IdleEmitted => activity_log' = activity_log
       /\ ~IdleStep => Cardinality(Kinds("idle")') = Cardinality(Kinds("idle"))
       /\ \A i, j \in Kinds("idle")' :
             i < j => activity_log'[j].time - activity_log'[i].time >= IdleTicks]_vars

\* C4 witness: an Idle event, then a tick that did not fire, then a second
\* Idle event
C4_Witness ==
    /\ Cardinality(Kinds("idle")) = 2
    /\ \E i, j \in Kinds("idle") :
          /\ i < j
          /\ activity_log[j].time - activity_log[i].time > PollTicks + MaxLate

\* the step is the flush of stop()
FlushStep == stopper.pc = "flush" /\ stopper'.pc # "flush"

\* C9: session_start is emitted before the first tick and before any
\* AppFocus or Idle event; stop() has cleared the running flag when it
\* flushes, it emits the AppFocus event of the interval in progress iff that
\* interval has a duration > 0, and it emits session_end after its flush.
C9_SessionOrder ==
    [][/\ (loop.pc \in {"sample", "idle", "sleep", "exited"}) => Kinds("session_start") # {}
       /\ \A i \in Kinds("app_focus")' \cup Kinds("idle")' :
             \E j \in Kinds("session_start")' : j < i
       /\ FlushStep =>
             /\ ~running
             /\ activity_log' = activity_log \o
                   (IF current_app # "None" /\ app_start_time # None
                       /\ (now - app_start_time) \div TicksPerSecond > 0
                    THEN <<ActivityEvent("app_focus", current_app, current_window,
                                         current_domain,
                                         (now - app_start_time) \div TicksPerSecond,
                                         "stop")>>
                    ELSE <<>>)
       /\ \A k \in Kinds("session_end")' :
             /\ ~activity_log'[k].flag
             /\ \A i \in Kinds("app_focus")' : activity_log'[i].by = "stop" => i < k]_vars

\* C9 witness: a session whose stop() flushed an interval: session_start,
\* then the AppFocus event of stop(), then session_end
C9_Witness ==
    \E i \in Kinds("session_start"), j \in Kinds("app_focus"), k \in Kinds("session_end") :
        /\ i < j /\ j < k
        /\ activity_log[j].by = "stop"

\* C11: in every emitted activity record duration_seconds is a non-negative
\* integer, non-zero only for AppFocus and Idle events (WebsiteVisit and
\* SystemEvent records carry 0), and every AppFocus event has a duration > 0.
C11_DurationByKind ==
    \A i \in 1..Len(activity_log) :
        /\ activity_log[i].duration_seconds \in Nat
        /\ activity_log[i].duration_seconds # 0 =>
              activity_log[i].event_type \in {"app_focus", "idle"}
        /\ activity_log[i].event_type = "app_focus" =>
              activity_log[i].duration_seconds > 0

\* C11 witness: a log that holds an AppFocus event, an Idle event and both
\* system events, after a focus interval shorter than a second was dropped
C11_Witness ==
    /\ Kinds("app_focus") # {} /\ Kinds("idle") # {}
    /\ Kinds("session_start") # {} /\ Kinds("session_end") # {}
    /\ current_app # "None" /\ app_start_time # None
    /\ \E i \in Kinds("session_end") : activity_log[i].time - app_start_time = 1

\* the event a deletion of a path whose cached content is c hands to the
\* sink: none when the diff from c to the empty content is empty
DeletionRecords(path, c) ==
    IF generate_diff(c, <<>>, path) # <<>>
    THEN <<CodeChangeEvent(path, "deleted", None, generate_diff(c, <<>>, path))>>
    ELSE <<>>

\* C12: process(p, Deleted) on a trackable path leaves the Snapshot Cache
\* without an entry for p and with its other entries as they were, and emits
\* a CodeChangeEvent, carrying the diff from the cached content (empty when
\* there is no entry) to the empty content, iff that diff is non-empty; an
\* event is emitted only if p had a cache entry.
C12_DeleteDropsEntry ==
    [][(ProcStep /\ NewCall.type = "deleted" /\ should_track_file(NewCall.path)) =>
          /\ DOMAIN file_cache' = DOMAIN file_cache \ {NewCall.path}
          /\ \A q \in DOMAIN file_cache' : file_cache'[q] = file_cache[q]
          /\ code_log' = code_log \o DeletionRecords(NewCall.path, NewCall.cached)
          /\ code_log' # code_log => NewCall.path \in DOMAIN file_cache]_vars

\* C12 witness: a deletion that was logged, of a path whose entry is gone,
\* followed by a deletion of the same path that logged nothing
C12_Witness ==
    \E k \in 2..Len(calls) :
        /\ calls[k - 1].type = "deleted" /\ calls[k].type = "deleted"
        /\ calls[k - 1].path = PathA /\ calls[k].path = PathA
        /\ calls[k - 1].cached # <<>>
        /\ calls[k].logged = calls[k - 1].logged + 1
        /\ Len(code_log) = calls[k].logged
        /\ PathA \notin DOMAIN file_cache

-----------------------------------------------------------------------------
(* SpecStart: CodeLogger.start.  The handler is created with an empty      *)
(* cache; start() walks the tree, then schedules and starts the observer.  *)
(* Until the observer runs, a change on disk delivers no event.            *)

InitStart ==
    /\ file_extensions = DefaultExtensions
    /\ ignored_dirs = DefaultIgnored
    /\ disk \in [PipePaths -> {NoFile, File(<<"x", NL>>, TRUE), File(<<"x", NL>>, FALSE)}]
    /\ file_cache = <<>>
    /\ change_queue = <<>>
    /\ code_log = <<>>
    /\ tasks = <<>>
    /\ raw_events = <<>>
    /\ calls = <<>>
    /\ observer = "new"
    /\ ParkTracker
    /\ ParkConfig
    /\ ParkSched
    /\ ParkHarness
    /\ now = 0

\* the tree changes while nothing watches it
UnwatchedWrite(p, f) ==
    /\ observer \in {"new", "seeded"}
    /\ f # disk[p]
    /\ disk' = [disk EXCEPT ![p] = f]
    /\ UNCHANGED <<file_extensions, ignored_dirs, file_cache, change_queue, code_log,
                   tasks, raw_events, calls, observer, trackerVars, harnessVars,
                   configVars, schedVars, now>>

\* start(): self._initialize_file_cache()
StartSeed ==
    /\ observer = "new"
    /\ file_cache' = InitializeFileCache(disk)
    /\ observer' = "seeded"
    /\ UNCHANGED <<file_extensions, ignored_dirs, change_queue, disk, code_log, tasks,
                   raw_events, calls, trackerVars, harnessVars, configVars, schedVars, now>>

\* start(): self.observer.schedule(...) for each directory, self.observer.start()
StartObserver ==
    /\ observer = "seeded"
    /\ observer' = "started"
    /\ UNCHANGED <<file_extensions, ignored_dirs, file_cache, change_queue, disk,
                   code_log, tasks, raw_events, calls, trackerVars, harnessVars,
                   configVars, schedVars, now>>

NextStart ==
    \/ \E p \in PipePaths, f \in {NoFile} \cup {File(c, TRUE) : c \in PipeContents} :
          UnwatchedWrite(p, f)
    \/ StartSeed
    \/ StartObserver
    \/ Next

SpecStart == InitStart /\ [][NextStart]_vars

\* the files the walk can seed: trackable, existing, readable
SeedablePaths == {p \in DOMAIN disk : should_track_file(p) /\ CanRead(disk[p])}

CacheEntry(cache, p) == IF p \in DOMAIN cache THEN <<cache[p]>> ELSE <<>>

FirstCallOn(p) == \A k \in 1..Len(calls) : calls[k].path # p

\* C13: the walk that seeds the Snapshot Cache with every trackable existing
\* (readable) file completes before any live event is processed: until the
\* observer runs there is no raw event, no task and no Change Processor
\* call; the walk leaves exactly the content of those files in the cache;
\* an entry then changes only in a Change Processor call on its path; so
\* the first live modification of a pre-existing file is diffed against its
\* seeded content, not against the empty content.
C13_SeedBeforeLive ==
    [][/\ observer # "started" => (raw_events = <<>> /\ tasks = <<>> /\ calls = <<>>)
       /\ (observer = "new" /\ observer' # "new") =>
              /\ DOMAIN file_cache' = SeedablePaths
              /\ \A p \in SeedablePaths : file_cache'[p] = disk[p].content
       /\ \A p \in PipePaths :
              CacheEntry(file_cache', p) # CacheEntry(file_cache, p) =>
                  \/ observer = "new"
                  \/ ProcStep /\ NewCall.path = p
       /\ (/\ ProcStep
           /\ FirstCallOn(NewCall.path)
           /\ ReadsFile(NewCall)
           /\ NewCall.path \in DOMAIN file_cache
           /\ NewCall.file.content # file_cache[NewCall.path]) =>
              /\ Len(code_log') = Len(code_log) + 1
              /\ Last(code_log').diff_content =
                     generate_diff(file_cache[NewCall.path], NewCall.file.content,
                                   NewCall.path)
              /\ Last(code_log').diff_content #
                     generate_diff(<<>>, NewCall.file.content, NewCall.path)]_vars

\* C13 witness: the first call is a modification of a file the walk had
\* seeded, and its event is in the log
C13_Witness ==
    /\ observer = "started"
    /\ Len(calls) = 1
    /\ calls[1].type = "modified"
    /\ calls[1].cached = <<"x", NL>>
    /\ CanRead(calls[1].file)
    /\ calls[1].file.content # calls[1].cached
    /\ Len(code_log) = 1
    /\ code_log[1].diff_content =
           generate_diff(<<"x", NL>>, calls[1].file.content, calls[1].path)

-----------------------------------------------------------------------------
\* the step in which the thread of raw event i evaluates its check
ChecksAt(i) == tasks[i].pc = "sleep" /\ tasks'[i].pc # "sleep"

\* raw events on the path of event i recorded after it, with another type
LaterOfOtherType(i) ==
    {j \in (i + 1)..Len(raw_events) :
        /\ raw_events[j].path = raw_events[i].path
        /\ raw_events[j].type # raw_events[i].type}

\* C14: per path a later raw event supersedes an earlier pending one: when
\* the delayed task of an event (p, t) fires and the Debounce Map holds for
\* p a value different from t, the task does nothing (no Change Processor
\* call then or later, map unchanged); and the task of an event goes on to
\* the Change Processor only if no later event of a different type was
\* recorded on its path before it fired.
C14_LaterSupersedes ==
    [][\A i \in 1..Len(tasks) :
          ChecksAt(i) =>
             /\ (QueueHas(tasks[i].path) /\ change_queue[tasks[i].path] # tasks[i].type) =>
                    /\ tasks'[i].pc = "done"
                    /\ calls' = calls
                    /\ change_queue' = change_queue
             /\ tasks'[i].pc = "process" => LaterOfOtherType(i) = {}]_vars

\* what the check does guarantee: a task that finds another value in the
\* Debounce Map ends without a call and without touching the map
SupersededTaskIsNoOp ==
    [][\A i \in 1..Len(tasks) :
          (ChecksAt(i) /\ QueueHas(tasks[i].path)
                       /\ change_queue[tasks[i].path] # tasks[i].type) =>
              (tasks'[i].pc = "done" /\ calls' = calls /\ change_queue' = change_queue)]_vars

-----------------------------------------------------------------------------
(* SpecMove: renames.  on_moved hands a file move to the Debouncer as two  *)
(* changes, one per path, and ignores the move of a directory.             *)

PathB == << <<"b", DOT, "py">> >>

MovePaths == {PathA, PathB}
MoveDirs == {<< <<"src">> >>, << <<"lib">> >>}

RawEvent(path, change_type) == [path |-> path, type |-> change_type, time |-> now]

MovedChangesCreateOnly(src_path, dest_path, is_directory) ==
    IF is_directory THEN <<>> ELSE << <<dest_path, "created">> >>

\* on_moved: the _debounced_change calls it makes, in order
MovedChanges(src_path, dest_path, is_directory) ==
    IF is_directory
        THEN <<>>
        ELSE << <<src_path, "deleted">>, <<dest_path, "created">> >>

\* the Debounce Map after the _debounced_change calls cs, made in order
RECURSIVE QueueAfter(_, _)
QueueAfter(queue, cs) ==
    IF cs = <<>>
        THEN queue
        ELSE QueueAfter([q \in DOMAIN queue \cup {cs[1][1]} |->
                            IF q = cs[1][1] THEN cs[1][2] ELSE queue[q]],
                        Tail(cs))

\* on_moved(event), the calls cs being MovedChanges of the event
DebounceAll(cs) ==
    /\ change_queue' = QueueAfter(change_queue, cs)
    /\ tasks' = tasks \o [k \in 1..Len(cs) |-> Task(cs[k][1], cs[k][2])]
    /\ raw_events' = raw_events \o [k \in 1..Len(cs) |-> RawEvent(cs[k][1], cs[k][2])]

on_moved(src_path, dest_path, is_directory) ==
    /\ DebounceAll(MovedChanges(src_path, dest_path, is_directory))
    /\ arg' = <<src_path, dest_path, is_directory>>

InitMove ==
    /\ file_extensions = DefaultExtensions
    /\ ignored_dirs = DefaultIgnored
    /\ disk \in [MovePaths -> {NoFile, File(<<"x", NL>>, TRUE)}]
    /\ file_cache = InitializeFileCache(disk)
    /\ change_queue = <<>>
    /\ code_log = <<>>
    /\ tasks = <<>>
    /\ raw_events = <<>>
    /\ calls = <<>>
    /\ observer = "started"
    /\ ParkTracker
    /\ ParkConfig
    /\ ParkSched
    /\ ParkHarness
    /\ now = 0

\* a file is renamed to a name that is free
FsMovedFile(s, d) ==
    /\ observer = "started"
    /\ Len(raw_events) + 2 <= MaxEvents
    /\ disk[s].exists
    /\ ~disk[d].exists
    /\ disk' = [disk EXCEPT ![s] = NoFile, ![d] = disk[s]]
    /\ on_moved(s, d, FALSE)
    /\ UNCHANGED <<file_extensions, ignored_dirs, file_cache, code_log, calls,
                   observer, trackerVars, res, configVars, schedVars, now>>

\* a directory (holding no tracked file) is renamed
FsMovedDir(s, d) ==
    /\ observer = "started"
    /\ s # d
    /\ on_moved(s, d, TRUE)
    /\ UNCHANGED <<file_extensions, ignored_dirs, file_cache, disk, code_log, calls,
                   observer, trackerVars, res, configVars, schedVars, now>>

NextMove ==
    \/ \E s, d \in MovePaths : FsMovedFile(s, d)
    \/ \E s, d \in MoveDirs : FsMovedDir(s, d)
    \/ \E p \in MovePaths : FsDeleted(p)
    \/ \E i \in 1..Len(tasks) : TaskCheck(i)
    \/ \E i \in 1..Len(tasks) : TaskProcess(i)
    \/ \E i \in 1..Len(tasks) : TaskClear(i)
    \/ Advance

SpecMove == InitMove /\ [][NextMove]_vars

\* the step is the rename of the file s to d
MovesFile(s, d) ==
    /\ disk[s].exists /\ ~disk'[s].exists
    /\ ~disk[d].exists /\ disk'[d].exists

\* C15: a move of a file from s to d is handled as a Deleted event for s
\* immediately followed by a Created event for d, each entering the
\* Debouncer under its own path with its own delayed task; the move of a
\* directory produces no debounced event.
C15_MoveIsDeleteThenCreate ==
    [][/\ \A s, d \in MovePaths :
             MovesFile(s, d) =>
                /\ raw_events' = raw_events \o <<RawEvent(s, "deleted"), RawEvent(d, "created")>>
                /\ tasks' = tasks \o <<Task(s, "deleted"), Task(d, "created")>>
                /\ DOMAIN change_queue' = DOMAIN change_queue \cup {s, d}
                /\ change_queue'[s] = "deleted"
                /\ change_queue'[d] = "created"
       /\ (arg' # arg /\ arg'[3]) =>
             /\ raw_events' = raw_events
             /\ tasks' = tasks
             /\ change_queue' = change_queue]_vars

\* C15 witness: a.py was moved to b.py, and both of its changes went
\* through the Change Processor and into the log
C15_Witness ==
    /\ arg = <<PathA, PathB, FALSE>>
    /\ Len(raw_events) = 2
    /\ raw_events[1].path = PathA /\ raw_events[1].type = "deleted"
    /\ raw_events[2].path = PathB /\ raw_events[2].type = "created"
    /\ raw_events[1].time = raw_events[2].time
    /\ Len(calls) = 2
    /\ \E k \in 1..2 : calls[k].path = PathA /\ calls[k].type = "deleted"
    /\ \E k \in 1..2 : calls[k].path = PathB /\ calls[k].type = "created"
    /\ Len(code_log) = 2

-----------------------------------------------------------------------------
\* the step is the sampling of a tick whose window query raised
FailedSampleStep == loop.pc = "sample" /\ loop'.pc = "idle" /\ loop'.failed

\* C16: a failure of the foreground-window query is never fatal: it yields
\* the empty sample, the tick is skipped (it emits no AppFocus event, or any
\* other, and leaves the ActivityState unchanged), and the loop goes on: the
\* idle check of that tick follows and the next tick is one poll interval
\* later.
C16_FailedQuerySkipsTick ==
    [][/\ FailedSampleStep =>
             /\ activity_log' = activity_log
             /\ current_app' = current_app
             /\ current_window' = current_window
             /\ current_domain' = current_domain
             /\ app_start_time' = app_start_time
       /\ (loop.pc = "idle" /\ loop.failed) =>
             (loop' # loop => loop'.pc = "sleep" /\ loop'.wake = now + PollTicks)]_vars

-----------------------------------------------------------------------------
(* SpecSink: the sink may fail.  One component is driven at a time, the    *)
(* Change Processor or the ticks of the activity tracker (arg names it);   *)
(* every call of the sink made by a handler raises when the sink is down   *)
(* for that handler.  res keeps how the last handler ended.                *)

MaxSinkCalls == 3
MaxSinkTime == 6

\* "except Exception as e: print(...)" around the body of
\* _process_file_change, and around the body of a tick in _monitor_loop
ProcessCatches == TRUE

\* a loop body without the except clause
LoopCatchesNothing == FALSE

LoopCatches == TRUE

\* how a handler ends when a call of the sink inside it raised or not
Outcome(raised, caught) ==
    [done |-> TRUE, val |-> IF raised /\ ~caught THEN "raised" ELSE "returned",
     failed |-> raised]

\* _process_file_change up to "# Log the change": the cache it leaves
CacheAfterChange(path, change_type) ==
    IF ~should_track_file(path) THEN file_cache
    ELSE IF change_type = "deleted" THEN CacheDel(path)
    ELSE IF ~disk[path].exists \/ ~CanRead(disk[path]) THEN file_cache
    ELSE IF CacheGet(path) # disk[path].content THEN CacheSet(path, disk[path].content)
    ELSE file_cache

\* _process_file_change: it reaches self.db.log_code_change
CallsSink(path, change_type) ==
    /\ should_track_file(path)
    /\ IF change_type = "deleted"
       THEN ShouldLog(generate_diff(CacheGet(path), <<>>, path))
       ELSE /\ disk[path].exists
            /\ CanRead(disk[path])
            /\ CacheGet(path) # disk[path].content
            /\ ShouldLog(generate_diff(CacheGet(path), disk[path].content, path))

\* the states of the file: absent, unreadable, or readable with a content
SinkFiles == {NoFile, File(<<"x", NL>>, FALSE)} \cup {File(c, TRUE) : c \in PipeContents}

InitSink ==
    /\ file_extensions = DefaultExtensions
    /\ ignored_dirs = DefaultIgnored
    /\ disk \in [PipePaths -> SinkFiles]
    /\ file_cache = InitializeFileCache(disk)
    /\ change_queue = <<>>
    /\ code_log = <<>>
    /\ tasks = <<>>
    /\ raw_events = <<>>
    /\ calls = <<>>
    /\ observer = "started"
    /\ running = TRUE
    /\ last_activity_time = 0
    /\ current_app = "None"
    /\ current_window = "None"
    /\ current_domain = "None"
    /\ app_start_time = None
    /\ loop = [pc |-> "sample", wake |-> 0, failed |-> FALSE]
    /\ stopper = [pc |-> "parked"]
    /\ listeners = "started"
    /\ activity_log = <<>>
    /\ truth = TruthInit
    /\ ParkConfig
    /\ ParkSched
    /\ arg \in {<<"processor">>, <<"tracker">>}
    /\ res = [done |-> FALSE, val |-> <<>>]
    /\ now = 0

SinkDiskWrite(p, f) ==
    /\ arg = <<"processor">>
    /\ f # disk[p]
    /\ disk' = [disk EXCEPT ![p] = f]
    /\ UNCHANGED <<file_extensions, ignored_dirs, file_cache, change_queue, code_log,
                   tasks, raw_events, calls, observer, trackerVars, harnessVars,
                   configVars, schedVars, now>>

\* _process_file_change(p, t), the sink being up or down
SinkProcess(p, t, up) ==
    /\ arg = <<"processor">>
    /\ Len(calls) < MaxSinkCalls
    /\ IF up \/ ~CallsSink(p, t)
       THEN /\ process_file_change(p, t)
            /\ res' = Outcome(FALSE, ProcessCatches)
       ELSE /\ file_cache' = CacheAfterChange(p, t)
            /\ code_log' = code_log
            /\ res' = Outcome(TRUE, ProcessCatches)
    /\ calls' = Append(calls, Call(p, t, 0))
    /\ UNCHANGED <<file_extensions, ignored_dirs, change_queue, disk, tasks,
                   raw_events, observer, trackerVars, configVars, schedVars, arg, now>>

\* a tick of _monitor_loop up to the idle check, the sink being up or down:
\* _log_app_change raises in its first log_activity, before the state is
\* updated, or in the second one, after it
SinkSample(w, up) ==
    /\ arg = <<"tracker">>
    /\ loop.pc = "sample"
    /\ IF w.app = current_app /\ w.title = current_window /\ w.domain = current_domain
       THEN /\ UNCHANGED <<current_app, current_window, current_domain,
                           app_start_time, activity_log>>
            /\ res' = Outcome(FALSE, LoopCatches)
            /\ loop' = [loop EXCEPT !.pc = "idle"]
       ELSE IF up
       THEN /\ log_app_change(w)
            /\ res' = Outcome(FALSE, LoopCatches)
            /\ loop' = [loop EXCEPT !.pc = "idle"]
       ELSE IF FocusRecords("loop") # <<>>
       THEN /\ UNCHANGED <<current_app, current_window, current_domain,
                           app_start_time, activity_log>>
            /\ res' = Outcome(TRUE, LoopCatches)
            /\ loop' = [loop EXCEPT !.pc = "sleep", !.wake = now + PollTicks]
       ELSE /\ current_app' = w.app
            /\ current_window' = w.title
            /\ current_domain' = w.domain
            /\ app_start_time' = now
            /\ activity_log' = activity_log
            /\ res' = Outcome(WebsiteRecords(w, w.domain) # <<>>, LoopCatches)
            /\ loop' = IF WebsiteRecords(w, w.domain) # <<>>
                       THEN [loop EXCEPT !.pc = "sleep", !.wake = now + PollTicks]
                       ELSE [loop EXCEPT !.pc = "idle"]
    /\ UNCHANGED <<running, last_activity_time, stopper, listeners, truth, codeVars,
                   configVars, schedVars, arg, now>>

\* the idle check of the tick, the sink being up or down
SinkIdle(up) ==
    /\ arg = <<"tracker">>
    /\ loop.pc = "idle"
    /\ IF up \/ ~IsIdle(now - last_activity_time)
       THEN /\ check_idle_state
            /\ res' = Outcome(FALSE, LoopCatches)
       ELSE /\ UNCHANGED <<activity_log, last_activity_time>>
            /\ res' = Outcome(TRUE, LoopCatches)
    /\ loop' = [loop EXCEPT !.pc = "sleep", !.wake = now + PollTicks]
    /\ UNCHANGED <<running, current_app, current_window, current_domain,
                   app_start_time, stopper, listeners, truth, codeVars, configVars, schedVars,
                   arg, now>>

\* time.sleep(self.poll_interval), in the loop body or in its except clause
SinkSleep ==
    /\ arg = <<"tracker">>
    /\ loop.pc = "sleep"
    /\ now < MaxSinkTime
    /\ now' = loop.wake
    /\ loop' = [loop EXCEPT !.pc = "sample"]
    /\ UNCHANGED <<running, last_activity_time, current_app, current_window,
                   current_domain, app_start_time, stopper, listeners, activity_log,
                   truth, codeVars, harnessVars, configVars, schedVars>>

NextSink ==
    \/ \E p \in PipePaths, f \in SinkFiles : SinkDiskWrite(p, f)
    \/ \E p \in PipePaths, t \in ChangeTypes, up \in BOOLEAN : SinkProcess(p, t, up)
    \/ \E w \in Windows, up \in BOOLEAN : SinkSample(w, up)
    \/ \E up \in BOOLEAN : SinkIdle(up)
    \/ SinkSleep

SpecSink == InitSink /\ [][NextSink]_vars

\* the step is a handler (a Change Processor call, or a tick's sampling or
\* idle check) in which a call of the sink raised
SinkFailedStep == res' # res /\ res'.done /\ res'.failed

\* C17: a sink failure while recording an event is not handled inside the
\* core: the handler that tried to record, the Change Processor or the
\* tracker's tick alike, ends by raising the failure to its caller.
C17_SinkFailurePropagates ==
    [][SinkFailedStep => res'.val = "raised"]_vars

-----------------------------------------------------------------------------
(* Config: the configuration object and its JSON file.                     *)
(* A JSON value is a list of strings, a scalar, or an object, which is a   *)
(* sequence of members in insertion order, as a Python dict keeps them.    *)
(* A JSON text is a sequence of tokens.                                    *)

JList(items) == [kind |-> "list", items |-> items]
JScalar(k, v) == [kind |-> "scalar", k |-> k, v |-> v]
JStr(v) == JScalar("s", v)
JLit(v) == JScalar("l", v)
JObject(members) == [kind |-> "object", members |-> members]
Member(key, value) == [key |-> key, value |-> value]

\* d.get(key, default) of a dict with the members ms
RECURSIVE DictGet(_, _, _)
DictGet(ms, key, default) ==
    IF ms = <<>> THEN default
    ELSE IF Head(ms).key = key THEN Head(ms).value
    ELSE DictGet(Tail(ms), key, default)

DictHas(ms, key) == \E i \in 1..Len(ms) : ms[i].key = key

DictSetAppended(ms, key, value) == Append(ms, Member(key, value))

\* d[key] = value: in place when the key is there, else at the end
DictSet(ms, key, value) ==
    IF DictHas(ms, key)
    THEN [i \in 1..Len(ms) |-> IF ms[i].key = key THEN Member(key, value) ELSE ms[i]]
    ELSE Append(ms, Member(key, value))

Punct(c) == [k |-> "p", v |-> c]
StrTok(v) == [k |-> "s", v |-> v]

RECURSIVE DumpStrings(_, _)
DumpStrings(items, i) ==
    IF i > Len(items) THEN <<>>
    ELSE (IF i > 1 THEN <<Punct(",")>> ELSE <<>>) \o <<StrTok(items[i])>>
         \o DumpStrings(items, i + 1)

RECURSIVE DumpValue(_)
RECURSIVE DumpMembers(_, _)
DumpMembers(ms, i) ==
    IF i > Len(ms) THEN <<>>
    ELSE (IF i > 1 THEN <<Punct(",")>> ELSE <<>>)
         \o <<StrTok(ms[i].key), Punct(":")>> \o DumpValue(ms[i].value)
         \o DumpMembers(ms, i + 1)

\* json.dump(value, f): the text written
DumpValue(value) ==
    IF value.kind = "list"
        THEN <<Punct("[")>> \o DumpStrings(value.items, 1) \o <<Punct("]")>>
    ELSE IF value.kind = "object"
        THEN <<Punct("{")>> \o DumpMembers(value.members, 1) \o <<Punct("}")>>
    ELSE <<[k |-> value.k, v |-> value.v]>>

Parsed(value, next) == [ok |-> TRUE, value |-> value, next |-> next]
ParseError == [ok |-> FALSE, value |-> JList(<<>>), next |-> 0]

Is(t, i, c) == i <= Len(t) /\ t[i] = Punct(c)
IsKind(t, i, k) == i <= Len(t) /\ t[i].k = k

\* the rest of a list: st is "first" after "[", "item" after ",", "sep"
\* after an item
RECURSIVE ParseStrings(_, _, _, _)
ParseStrings(t, i, items, st) ==
    IF st # "item" /\ Is(t, i, "]") THEN Parsed(JList(items), i + 1)
    ELSE IF st # "sep" /\ IsKind(t, i, "s")
        THEN ParseStrings(t, i + 1, Append(items, t[i].v), "sep")
    ELSE IF st = "sep" /\ Is(t, i, ",") THEN ParseStrings(t, i + 1, items, "item")
    ELSE ParseError

RECURSIVE ParseValue(_, _)
RECURSIVE ParseMembers(_, _, _, _)
\* a member "key": value has been read as r, the members go on after it
AfterMember(t, key, ms, r) ==
    IF r.ok THEN ParseMembers(t, r.next, DictSet(ms, key, r.value), "sep")
    ELSE ParseError

ParseMembers(t, i, ms, st) ==
    IF st # "item" /\ Is(t, i, "}") THEN Parsed(JObject(ms), i + 1)
    ELSE IF st # "sep" /\ IsKind(t, i, "s") /\ Is(t, i + 1, ":")
        THEN AfterMember(t, t[i].v, ms, ParseValue(t, i + 2))
    ELSE IF st = "sep" /\ Is(t, i, ",") THEN ParseMembers(t, i + 1, ms, "item")
    ELSE ParseError

ParseValue(t, i) ==
    IF Is(t, i, "[") THEN ParseStrings(t, i + 1, <<>>, "first")
    ELSE IF Is(t, i, "{") THEN ParseMembers(t, i + 1, <<>>, "first")
    ELSE IF IsKind(t, i, "s") \/ IsKind(t, i, "l") THEN Parsed(JScalar(t[i].k, t[i].v), i + 1)
    ELSE ParseError

\* the whole text must be one value
WholeText(t, r) == IF r.ok /\ r.next = Len(t) + 1 THEN r ELSE ParseError

\* json.load(f) of a decoded text: the value, or JSONDecodeError
LoadValue(t) == WholeText(t, ParseValue(t, 1))

-----------------------------------------------------------------------------
(* SpecConfig: Config objects on one path.  config is the self.config of   *)
(* the object made last, config_file the file at config_path, arg the last *)
(* operation, res how it ended.                                            *)

default_config ==
    << Member("watch_directories", JList(<<".">>)),
       Member("file_extensions", JList(<<
           ".py", ".js", ".ts", ".jsx", ".tsx", ".cpp", ".c", ".h", ".hpp",
           ".java", ".kt", ".swift", ".go", ".rs", ".php", ".rb", ".cs",
           ".html", ".css", ".scss", ".less", ".json", ".xml", ".yaml", ".yml",
           ".sql", ".md", ".txt", ".sh", ".bat", ".ps1", ".dockerfile">>)),
       Member("ignored_directories", JList(<<
           "__pycache__", ".git", ".svn", ".hg", "node_modules", ".vscode",
           ".idea", "build", "dist", "target", "bin", "obj", ".pytest_cache",
           ".mypy_cache", "venv", "env", ".env">>)),
       Member("activity_tracking", JObject(<<
           Member("idle_threshold_minutes", JLit("5")),
           Member("poll_interval_seconds", JLit("5")),
           Member("track_websites", JLit("true")),
           Member("track_applications", JLit("true"))>>)),
       Member("database", JObject(<<
           Member("path", JStr("./onloq.db")),
           Member("encryption_enabled", JLit("false"))>>)),
       Member("summarization", JObject(<<
           Member("default_model", JStr("qwen2.5")),
           Member("auto_summarize", JLit("true")),
           Member("summarize_time", JStr("23:59")),
           Member("periodic_reminders", JLit("false"))>>)) >>

\* the file at config_path: absent, bytes that are no UTF-8 text, or a text
MissingFile == [exists |-> FALSE, decodable |-> TRUE, text |-> <<>>]
BinaryFile == [exists |-> TRUE, decodable |-> FALSE, text |-> <<>>]
TextFile(t) == [exists |-> TRUE, decodable |-> TRUE, text |-> t]

\* "config or self.config": None and the empty dict are false
Truthy(value) ==
    IF value.kind = "object" THEN value.members # <<>>
    ELSE IF value.kind = "list" THEN value.items # <<>>
    ELSE value.v \notin {"null", "false", "0", ""}

PyNone == JLit("null")

\* _save_config(config): the file it writes
save_config(config_arg, self_config) ==
    TextFile(DumpValue(IF Truthy(config_arg) THEN config_arg ELSE self_config))

NoConfig == [built |-> FALSE, value |-> JObject(<<>>)]
Built(value) == [built |-> TRUE, value |-> value]

\* the file holds a text json.load accepts
LoadsFrom(file) == file.exists /\ file.decodable /\ LoadValue(file.text).ok

\* open(..., encoding='utf-8') and json.load raise UnicodeDecodeError, which
\* "except (json.JSONDecodeError, IOError)" does not catch
LoadRaises(file) == file.exists /\ ~file.decodable

\* get_watch_directories()
get_watch_directories(c) == DictGet(c.value.members, "watch_directories", JList(<<".">>))

\* get_file_extensions()
get_file_extensions(c) == DictGet(c.value.members, "file_extensions", JList(<<>>))

\* get_ignored_directories()
get_ignored_directories(c) == DictGet(c.value.members, "ignored_directories", JList(<<>>))

\* the directory lists given to set_watch_directories
WatchInputs == {<<>>, <<"/test/path">>, <<".", "src">>}

\* what may be found at config_path
ConfigFiles ==
    {MissingFile, BinaryFile, TextFile(<<>>), TextFile(<<Punct("{")>>),
     TextFile(DumpValue(JObject(default_config))),
     TextFile(DumpValue(JObject(<<>>))),
     TextFile(DumpValue(JObject(<<Member("ignored_directories", JList(<<"build">>)),
                                  Member("watch_directories", JList(<<"src">>))>>)))}

InitConfig ==
    /\ ParkCode
    /\ ParkTracker
    /\ ParkSched
    /\ config = NoConfig
    /\ config_file \in ConfigFiles
    /\ arg = <<>>
    /\ res = [done |-> FALSE, val |-> <<>>]
    /\ now = 0

LastOp == IF arg = <<>> THEN "none" ELSE Head(arg)

\* Config(config_path): __init__ and _load_or_create_default
ConfigNew ==
    /\ IF LoadRaises(config_file)
       THEN /\ config' = NoConfig
            /\ config_file' = config_file
            /\ res' = [done |-> TRUE, val |-> "UnicodeDecodeError"]
       ELSE IF LoadsFrom(config_file)
       THEN /\ config' = Built(LoadValue(config_file.text).value)
            /\ config_file' = config_file
            /\ res' = [done |-> TRUE, val |-> "returned"]
       ELSE /\ config' = Built(JObject(default_config))
            /\ config_file' = save_config(JObject(default_config), config.value)
            /\ res' = [done |-> TRUE, val |-> "returned"]
    /\ arg' = IF LastOp = "set" THEN <<"new">> \o arg ELSE <<"new">>
    /\ UNCHANGED <<codeVars, trackerVars, now, schedVars>>

\* set_watch_directories(directories)
set_watch_directories(directories) ==
    /\ config' = Built(JObject(DictSet(config.value.members, "watch_directories",
                                       JList(directories))))
    /\ config_file' = save_config(PyNone, config'.value)

ConfigSet(directories) ==
    /\ config.built
    /\ set_watch_directories(directories)
    /\ arg' = <<"set">> \o directories
    /\ res' = [done |-> TRUE, val |-> "returned"]
    /\ UNCHANGED <<codeVars, trackerVars, now, schedVars>>

\* the file is replaced from outside
ConfigFileEdit(f) ==
    /\ f # config_file
    /\ config_file' = f
    /\ arg' = <<"edit">>
    /\ UNCHANGED <<config, res, codeVars, trackerVars, now, schedVars>>

NextConfig ==
    \/ ConfigNew
    \/ \E d \in WatchInputs : ConfigSet(d)
    \/ \E f \in ConfigFiles : ConfigFileEdit(f)

SpecConfig == InitConfig /\ [][NextConfig]_vars

\* the step constructs a Config
NewStep == arg' # arg /\ LastOp' = "new"

\* C18: a Config constructed on a path whose file is missing or does not
\* contain valid JSON holds the default configuration (watch_directories
\* ["."], ".py" among the file extensions, "__pycache__" among the ignored
\* directories) and writes that default to the file.
C18_DefaultOnMissingOrInvalid ==
    [][(NewStep /\ ~LoadsFrom(config_file)) =>
          /\ config'.built
          /\ config'.value = JObject(default_config)
          /\ get_watch_directories(config') = JList(<<".">>)
          /\ \E i \in 1..Len(get_file_extensions(config').items) :
                get_file_extensions(config').items[i] = ".py"
          /\ \E i \in 1..Len(get_ignored_directories(config').items) :
                get_ignored_directories(config').items[i] = "__pycache__"
          /\ LoadsFrom(config_file')
          /\ LoadValue(config_file'.text).value = JObject(default_config)]_vars

\* the members of a dict other than key, in order
OtherMembers(ms, key) == SelectSeq(ms, LAMBDA m : m.key # key)

\* C19: after set_watch_directories(d), get_watch_directories() returns d,
\* and the value is persisted: the file holds the configuration of the
\* object, and a Config constructed next on the same path returns d too and
\* holds the same configuration; the other keys are unchanged by the call.
C19_SetWatchDirectoriesPersists ==
    [][/\ (arg' # arg /\ LastOp' = "set") =>
             /\ get_watch_directories(config') = JList(Tail(arg'))
             /\ OtherMembers(config'.value.members, "watch_directories")
                    = OtherMembers(config.value.members, "watch_directories")
             /\ LoadsFrom(config_file')
             /\ LoadValue(config_file'.text).value = config'.value
       /\ (LastOp = "set" /\ NewStep) =>
             /\ config'.built
             /\ get_watch_directories(config') = JList(Tail(arg))
             /\ config'.value = config.value]_vars

\* C19 witness: a Config constructed on the default file was given
\* ["/test/path"], and the Config constructed next on the path returns it,
\* with the default file extensions still there
C19_Witness ==
    /\ arg = <<"new", "set", "/test/path">>
    /\ config.built
    /\ get_watch_directories(config) = JList(<<"/test/path">>)
    /\ get_file_extensions(config) = DictGet(default_config, "file_extensions", JList(<<>>))
    /\ Len(config.value.members) = Len(default_config)

-----------------------------------------------------------------------------
(* SpecDb: the Database.  activity_log and code_log are the tables         *)
(* activity_logs and code_logs, now is the UTC clock in units of six       *)
(* hours, arg the UTC offset of the machine's local time, res the result   *)
(* of the last query.  The order of the rows a query returns is left out.  *)

TicksPerDay == 4
MaxDbRows == 2
MaxDbTime == 4
MaxDays == 1

\* the local time zones: six hours behind UTC, UTC, six hours ahead
UtcOffsets == {0 - 1, 0, 1}

\* SQLite's CURRENT_TIMESTAMP: UTC
CURRENT_TIMESTAMP == now

\* datetime.now(): the naive local time
datetime_now(offset) == now + offset

\* the arguments of the log_activity calls
ActivityInputs ==
    {[event_type |-> "app_focus", application |-> "test_app",
      window_title |-> "Test Window", website_domain |-> "None", duration_seconds |-> 60],
     [event_type |-> "idle", application |-> "None",
      window_title |-> "None", website_domain |-> "None", duration_seconds |-> 300]}

\* the arguments of the log_code_change calls
CodeInputs ==
    {[file_path |-> "test.py", change_type |-> "modified", file_size |-> 100,
      diff_content |-> "test diff"],
     [file_path |-> "old.py", change_type |-> "deleted", file_size |-> None,
      diff_content |-> "old diff"]}

\* the row INSERT INTO activity_logs makes
ActivityRow(id, e) ==
    [id |-> id, timestamp |-> CURRENT_TIMESTAMP, event_type |-> e.event_type,
     application |-> e.application, window_title |-> e.window_title,
     website_domain |-> e.website_domain, duration_seconds |-> e.duration_seconds]

\* the row INSERT INTO code_logs makes
CodeRow(id, c) ==
    [id |-> id, timestamp |-> CURRENT_TIMESTAMP, file_path |-> c.file_path,
     change_type |-> c.change_type, file_size |-> c.file_size,
     diff_content |-> c.diff_content]

\* "since_date = datetime.now() - timedelta(days=days)"
since_date(days, offset) == datetime_now(offset) - days * TicksPerDay

\* "SELECT * FROM table WHERE timestamp >= ?"
SelectSince(table, since) == {r \in Range(table) : r.timestamp >= since}

QueryResult(kind, days, rows) ==
    [done |-> TRUE, kind |-> kind, days |-> days, val |-> rows]

\* initialize(): the connection is open and the tables exist
InitDb ==
    /\ ParkCode
    /\ ParkTracker
    /\ ParkConfig
    /\ ParkSched
    /\ arg \in UtcOffsets
    /\ res = [done |-> FALSE, kind |-> "none", days |-> 0, val |-> {}]
    /\ now = 0

DbUnchanged ==
    UNCHANGED <<file_extensions, ignored_dirs, file_cache, change_queue, disk, tasks,
                raw_events, calls, observer, running, last_activity_time, current_app,
                current_window, current_domain, app_start_time, loop, stopper,
                listeners, truth, configVars, schedVars, arg>>

\* log_activity(...)
DbLogActivity(e) ==
    /\ Len(activity_log) < MaxDbRows
    /\ activity_log' = Append(activity_log, ActivityRow(Len(activity_log) + 1, e))
    /\ UNCHANGED <<code_log, res, now>>
    /\ DbUnchanged

\* log_code_change(...)
DbLogCodeChange(c) ==
    /\ Len(code_log) < MaxDbRows
    /\ code_log' = Append(code_log, CodeRow(Len(code_log) + 1, c))
    /\ UNCHANGED <<activity_log, res, now>>
    /\ DbUnchanged

\* get_activity_logs(days)
DbGetActivityLogs(days) ==
    /\ res' = QueryResult("activity", days, SelectSince(activity_log, since_date(days, arg)))
    /\ UNCHANGED <<activity_log, code_log, now>>
    /\ DbUnchanged

\* get_code_logs(days)
DbGetCodeLogs(days) ==
    /\ res' = QueryResult("code", days, SelectSince(code_log, since_date(days, arg)))
    /\ UNCHANGED <<activity_log, code_log, now>>
    /\ DbUnchanged

DbAdvance ==
    /\ now < MaxDbTime
    /\ now' = now + 1
    /\ UNCHANGED <<activity_log, code_log, res>>
    /\ DbUnchanged

NextDb ==
    \/ \E e \in ActivityInputs : DbLogActivity(e)
    \/ \E c \in CodeInputs : DbLogCodeChange(c)
    \/ \E days \in 0..MaxDays : DbGetActivityLogs(days)
    \/ \E days \in 0..MaxDays : DbGetCodeLogs(days)
    \/ DbAdvance

SpecDb == InitDb /\ [][NextDb]_vars

\* the rows of a table logged within the last days days
LoggedWithin(table, days) == {r \in Range(table) : r.timestamp >= now - days * TicksPerDay}

\* C20: after initialize(), each log_activity call appends exactly one
\* activity record and each log_code_change call exactly one code-change
\* record, with the logged field values; get_activity_logs(days) and
\* get_code_logs(days) return exactly the records of their own kind logged
\* within the last days days; the two kinds never mix.
C20_LogAndQuery ==
    [][/\ activity_log' # activity_log =>
             /\ code_log' = code_log
             /\ \E e \in ActivityInputs :
                   activity_log' = Append(activity_log, ActivityRow(Len(activity_log) + 1, e))
       /\ code_log' # code_log =>
             /\ activity_log' = activity_log
             /\ \E c \in CodeInputs :
                   code_log' = Append(code_log, CodeRow(Len(code_log) + 1, c))
       /\ (res' # res /\ res'.kind = "activity") =>
             res'.val = LoggedWithin(activity_log, res'.days)
       /\ (res' # res /\ res'.kind = "code") =>
             res'.val = LoggedWithin(code_log, res'.days)]_vars

\* what the queries do return when the machine's local time is UTC
QueriesExactInUtc ==
    [][(arg = 0 /\ res' # res) =>
          res'.val = LoggedWithin(IF res'.kind = "activity" THEN activity_log ELSE code_log,
                                  res'.days)]_vars

-----------------------------------------------------------------------------
(* SpecDomain: ActivityLogger._extract_domain_from_title, character by     *)
(* character.  A string is the sequence of its characters.                 *)

LowerLetters == {"a", "b", "c", "d", "e", "f", "g", "h", "i", "m", "o", "p", "r", "s",
                 "t", "v", "w", "x", "y"}
UpperLetters == {"C", "E", "H", "M", "O", "R", "X"}

\* str.lower(), one character
LowerChar(c) ==
    CASE c = "C" -> "c" [] c = "E" -> "e" [] c = "H" -> "h" [] c = "M" -> "m"
      [] c = "O" -> "o" [] c = "R" -> "r" [] c = "X" -> "x" [] OTHER -> c

LowerStr(str) == [i \in 1..Len(str) |-> LowerChar(str[i])]

IsAlpha(c) == c \in LowerLetters \cup UpperLetters
IsSpace(c) == c = " "

\* the positions of t whose character is in a class of the patterns:
\* [^/\s], [a-zA-Z0-9.-], [^-\s], [a-zA-Z]
NotSlashSpace(t) == {k \in 1..Len(t) : t[k] # "/" /\ ~IsSpace(t[k])}
DomainChars(t) == {k \in 1..Len(t) : IsAlpha(t[k]) \/ t[k] \in {".", "-"}}
NotDashSpace(t) == {k \in 1..Len(t) : t[k] # "-" /\ ~IsSpace(t[k])}
Alphas(t) == {k \in 1..Len(t) : IsAlpha(t[k])}

\* the end of the longest run of positions of S that starts at i (i - 1 when
\* i is not in S): a greedy "+" or "*"
RunEnd(S, i, n) == SetMax({j \in (i - 1)..n : \A k \in i..j : k \in S})

\* t has the characters of lit at position i
LitAt(t, i, lit) ==
    /\ i >= 1
    /\ i + Len(lit) - 1 <= Len(t)
    /\ \A k \in 1..Len(lit) : t[i + k - 1] = lit[k]

NoMatch == [some |-> FALSE, group |-> <<>>]
Group(t, lo, hi) == [some |-> TRUE, group |-> SubSeq(t, lo, hi)]

\* r"https?://([^/\s]+)" matched at position i; j is where "://" must be
UrlGroup(t, j) ==
    IF LitAt(t, j, <<":", "/", "/">>) /\ RunEnd(NotSlashSpace(t), j + 3, Len(t)) >= j + 3
    THEN Group(t, j + 3, RunEnd(NotSlashSpace(t), j + 3, Len(t)))
    ELSE NoMatch

UrlAt(t, i) ==
    IF ~LitAt(t, i, <<"h", "t", "t", "p">>) THEN NoMatch
    ELSE IF LitAt(t, i + 4, <<"s">>) THEN UrlGroup(t, i + 5)
    ELSE UrlGroup(t, i + 4)

\* the dots of the run lo..e that are followed by two letters: where the
\* greedy first part of a domain pattern may stop
DotsBeforeLetters(t, lo, e) ==
    {k \in lo..e : t[k] = "." /\ k + 2 <= Len(t) /\ IsAlpha(t[k + 1]) /\ IsAlpha(t[k + 2])}

\* "(C+\.[a-zA-Z]{2,})" with the class positions S, the group starting at
\* g: the first part is as long as it can be, then the letters are
DottedGroup(t, g, dots) ==
    IF dots = {} THEN NoMatch
    ELSE Group(t, g, RunEnd(Alphas(t), SetMax(dots) + 1, Len(t)))

\* r"([a-zA-Z0-9.-]+\.[a-zA-Z]{2,})" matched at position i
DomainAt(t, i) ==
    DottedGroup(t, i, DotsBeforeLetters(t, i + 1, RunEnd(DomainChars(t), i, Len(t))))

\* r"- ([^-\s]+\.[a-zA-Z]{2,})" matched at position i
AfterDashAt(t, i) ==
    IF LitAt(t, i, <<"-", " ">>)
    THEN DottedGroup(t, i + 2,
                     DotsBeforeLetters(t, i + 3, RunEnd(NotDashSpace(t), i + 2, Len(t))))
    ELSE NoMatch

\* re.search: the match at the leftmost position that has one
SearchUrl(t) ==
    IF \E i \in 1..Len(t) : UrlAt(t, i).some
    THEN UrlAt(t, CHOOSE i \in 1..Len(t) :
                      UrlAt(t, i).some /\ \A j \in 1..(i - 1) : ~UrlAt(t, j).some)
    ELSE NoMatch

SearchDomain(t) ==
    IF \E i \in 1..Len(t) : DomainAt(t, i).some
    THEN DomainAt(t, CHOOSE i \in 1..Len(t) :
                         DomainAt(t, i).some /\ \A j \in 1..(i - 1) : ~DomainAt(t, j).some)
    ELSE NoMatch

SearchAfterDash(t) ==
    IF \E i \in 1..Len(t) : AfterDashAt(t, i).some
    THEN AfterDashAt(t, CHOOSE i \in 1..Len(t) :
                            AfterDashAt(t, i).some /\ \A j \in 1..(i - 1) : ~AfterDashAt(t, j).some)
    ELSE NoMatch

\* "for pattern in patterns: match = re.search(pattern, title)": the first
\* pattern that matches
FirstMatch(t) ==
    IF SearchUrl(t).some THEN SearchUrl(t)
    ELSE IF SearchDomain(t).some THEN SearchDomain(t)
    ELSE SearchAfterDash(t)

\* str.strip()
RECURSIVE StripLeft(_)
StripLeft(str) == IF str # <<>> /\ IsSpace(Head(str)) THEN StripLeft(Tail(str)) ELSE str
RECURSIVE StripRight(_)
StripRight(str) ==
    IF str # <<>> /\ IsSpace(str[Len(str)]) THEN StripRight(SubSeq(str, 1, Len(str) - 1))
    ELSE str
Strip(str) == StripRight(StripLeft(str))

\* re.sub(r"^www\.", "", domain)
DropWww(str) ==
    IF LitAt(str, 1, <<"w", "w", "w", ".">>) THEN SubSeq(str, 5, Len(str)) ELSE str

\* "domain.strip().lower()", then the prefix is removed
CleanDomain(group) == DropWww(LowerStr(Strip(group)))

browsers ==
    {<<"c", "h", "r", "o", "m", "e", ".", "e", "x", "e">>,
     <<"f", "i", "r", "e", "f", "o", "x", ".", "e", "x", "e">>,
     <<"m", "s", "e", "d", "g", "e", ".", "e", "x", "e">>,
     <<"s", "a", "f", "a", "r", "i", ".", "e", "x", "e">>,
     <<"o", "p", "e", "r", "a", ".", "e", "x", "e">>,
     <<"b", "r", "a", "v", "e", ".", "e", "x", "e">>}

IsBrowserAnyName(app_name) == TRUE

\* "app_name.lower() not in browsers", negated
IsBrowser(app_name) == LowerStr(app_name) \in browsers

NoDomain == [some |-> FALSE, domain |-> <<>>]

DomainOf(m) == IF m.some THEN [some |-> TRUE, domain |-> CleanDomain(m.group)] ELSE NoDomain

\* _extract_domain_from_title(title, app_name)
extract_domain_from_title(title, app_name) ==
    IF title = <<>> THEN NoDomain
    ELSE IF ~IsBrowser(app_name) THEN NoDomain
    ELSE DomainOf(FirstMatch(title))

\* the process names and the pieces of the titles of the harness
MaxTitleWords == 3
ProcessNames ==
    {<<"c", "h", "r", "o", "m", "e", ".", "e", "x", "e">>,
     <<"C", "h", "r", "o", "m", "e", ".", "E", "X", "E">>,
     <<"C", "H", "R", "O", "M", "E", ".", "E", "X", "E">>,
     <<"f", "i", "r", "e", "f", "o", "x", ".", "e", "x", "e">>,
     <<"c", "o", "d", "e", ".", "e", "x", "e">>,
     <<"c", "h", "r", "o", "m", "e">>,
     <<"x", "c", "h", "r", "o", "m", "e", ".", "e", "x", "e">>,
     <<>>}
TitleWords ==
    {<<"h", "t", "t", "p", ":", "/", "/">>,
     <<"h", "t", "t", "p", "s", ":", "/", "/">>,
     <<"w", "w", "w", ".">>,
     <<"E", "x", ".", "c", "o", "m">>,
     <<"a">>,
     <<".", "i", "o">>,
     <<" ", "-", " ">>,
     <<"_">>,
     <<"/">>}
Titles == UNION {{Flatten(ws) : ws \in [1..n -> TitleWords]} : n \in 0..MaxTitleWords}

InitDomain ==
    /\ ParkCode
    /\ ParkTracker
    /\ ParkConfig
    /\ ParkSched
    /\ arg \in Titles \X ProcessNames
    /\ res = [done |-> FALSE, val |-> NoDomain]
    /\ now = 0

DomainCall ==
    /\ ~res.done
    /\ res' = [done |-> TRUE, val |-> extract_domain_from_title(arg[1], arg[2])]
    /\ UNCHANGED <<codeVars, trackerVars, configVars, schedVars, arg, now>>

NextDomain == DomainCall

SpecDomain == InitDomain /\ [][NextDomain]_vars

\* C21: domain extraction returns a domain only for a process whose name,
\* compared case-insensitively, is in the browser allowlist; for every other
\* process name, and for an empty title, the domain is absent whatever the
\* title contains.
C21_DomainOnlyForBrowsers ==
    res.done =>
        /\ res.val.some => (LowerStr(arg[2]) \in browsers /\ arg[1] # <<>>)
        /\ res.val = extract_domain_from_title(arg[1], LowerStr(arg[2]))

\* C21 witness: "Chrome.EXE" showing "https://www.Ex.com" gives ex.com
C21_Witness ==
    /\ res.done
    /\ arg[2] = <<"C", "h", "r", "o", "m", "e", ".", "E", "X", "E">>
    /\ arg[1] = <<"h", "t", "t", "p", "s", ":", "/", "/", "w", "w", "w", ".", "E", "x", ".", "c", "o", "m">>
    /\ res.val = [some |-> TRUE, domain |-> <<"e", "x", ".", "c", "o", "m">>]

-----------------------------------------------------------------------------
-----------------------------------------------------------------------------
\* the path is not trackable: its extension is not in the allowlist, or one
\* of its segments is an ignored directory
NotTrackable(path) == ~(ExtensionAllowed(path) /\ NoIgnoredSegment(path))

\* C23: process(p, t) on a path that is not trackable is a no-op for every
\* change type t, Deleted included: no CodeChangeEvent is emitted and the
\* Snapshot Cache is left unchanged.
C23_UntrackableNoOp ==
    [][(ProcStep /\ NotTrackable(NewCall.path)) =>
          (code_log' = code_log /\ file_cache' = file_cache)]_vars

\* C23 witness: a modification, then a deletion, were processed for the file
\* under node_modules, which was there and readable at the first call;
\* neither logged anything
C23_Witness ==
    /\ Len(calls) = 2
    /\ calls[1].path = PathIgnored /\ calls[2].path = PathIgnored
    /\ calls[1].type = "modified" /\ CanRead(calls[1].file)
    /\ calls[2].type = "deleted"
    /\ calls[2].logged = calls[1].logged
    /\ Len(code_log) = calls[2].logged
    /\ PathIgnored \notin DOMAIN file_cache

-----------------------------------------------------------------------------
\* C24: process(p, Created|Modified) when p no longer exists on disk, or
\* when its content cannot be read, drops the change silently: no
\* CodeChangeEvent is emitted, the Snapshot Cache is left unchanged and the
\* call returns without an error.
C24_MissingOrUnreadableDropped ==
    [][(/\ ProcStep
        /\ NewCall.type \in {"created", "modified"}
        /\ ~(NewCall.file.exists /\ NewCall.file.readable)) =>
          /\ code_log' = code_log
          /\ file_cache' = file_cache
          /\ res'.done /\ res'.val = "returned" /\ ~res'.failed]_vars

\* C24 witness: a.py was in the cache; a modification was processed while
\* the file could not be read, and a creation while it was gone, the sink
\* being up or down; the entry is as it was and nothing was logged
C24_Witness ==
    /\ Len(calls) = 2
    /\ calls[1].type = "modified" /\ calls[1].file.exists /\ ~calls[1].file.readable
    /\ calls[2].type = "created" /\ ~calls[2].file.exists
    /\ calls[1].cached # <<>>
    /\ PathA \in DOMAIN file_cache /\ file_cache[PathA] = calls[1].cached
    /\ code_log = <<>>
    /\ res.done /\ res.val = "returned"

-----------------------------------------------------------------------------
\* the step is the sampling of a tick; after it the ActivityState is the
\* sampled triple
SampleStep == loop.pc = "sample" /\ loop'.pc = "idle"

ActivityState == <<current_app, current_window, current_domain>>

\* the records the step appended
Appended == SubSeq(activity_log', Len(activity_log) + 1, Len(activity_log'))

\* the whole seconds of the focus interval in progress
FocusSeconds == IntSeconds(now - app_start_time)

\* C25: on a tick whose sample differs from ActivityState in any component
\* the tracker emits at most one AppFocus event, carrying the previous
\* application, title and domain and the duration now - focus_start, only
\* when a previous application existed and the duration is > 0; it then
\* sets ActivityState to the new triple with focus start = now.  On a tick
\* whose sample equals ActivityState no event is emitted by the transition
\* and ActivityState, focus start included, is unchanged.
C25_TickTransition ==
    [][SampleStep =>
          /\ SubSeq(activity_log', 1, Len(activity_log)) = activity_log
          /\ IF ActivityState' # ActivityState
             THEN /\ app_start_time' = now
                  /\ IF current_app # "None" /\ app_start_time # None /\ FocusSeconds > 0
                     THEN /\ Len(Appended) = 1
                          /\ Appended[1].event_type = "app_focus"
                          /\ Appended[1].application = current_app
                          /\ Appended[1].window_title = current_window
                          /\ Appended[1].website_domain = current_domain
                          /\ Appended[1].duration_seconds = FocusSeconds
                     ELSE Appended = <<>>
             ELSE /\ Appended = <<>>
                  /\ app_start_time' = app_start_time]_vars

\* C25 witness: main.py of code.exe had the focus for a second, then a tick
\* saw notes.md of the same application: the interval was emitted and a new
\* one began
C25_Witness ==
    /\ loop.pc = "idle"
    /\ current_app = "code.exe" /\ current_window = "notes.md"
    /\ app_start_time = now
    /\ activity_log # <<>>
    /\ Last(activity_log).event_type = "app_focus"
    /\ Last(activity_log).application = "code.exe"
    /\ Last(activity_log).window_title = "main.py"
    /\ Last(activity_log).duration_seconds = 1
    /\ Last(activity_log).time = now

-----------------------------------------------------------------------------
(* SpecRestart: start() called more than once.  start() runs the poll loop *)
(* in the thread that calls it, so every call has a thread of its own;     *)
(* here loop maps each of these threads to where it is.  arg is the build: *)
(* PYNPUT_SUPPORT, the input listeners being there or not.  A listener is  *)
(* a thread and can be started once.                                       *)

Starters == {1, 2}
MaxRestartTime == 4

RestartWindows == {NoWindow, WindowInfo("code.exe", "main.py")}

InitRestart ==
    /\ ParkCode
    /\ ParkConfig
    /\ ParkSched
    /\ running = FALSE
    /\ last_activity_time = 0
    /\ current_app = "None"
    /\ current_window = "None"
    /\ current_domain = "None"
    /\ app_start_time = None
    /\ loop = [t \in Starters |-> [pc |-> "start", wake |-> 0]]
    /\ stopper = [pc |-> "ready", calls |-> 0]
    /\ listeners = "new"
    /\ activity_log = <<>>
    /\ truth = TruthInit
    /\ arg \in BOOLEAN
    /\ res = [done |-> FALSE, val |-> <<>>]
    /\ now = 0

\* start() in thread t: "if self.running: return", else the flag is set
RStartFlag(t) ==
    /\ loop[t].pc = "start"
    /\ running' = TRUE
    /\ last_activity_time' = IF running THEN last_activity_time ELSE now
    /\ loop' = [loop EXCEPT ![t].pc = IF running THEN "returned" ELSE "announce"]
    /\ UNCHANGED <<current_app, current_window, current_domain, app_start_time,
                   stopper, listeners, activity_log, truth, now, codeVars, harnessVars,
                   configVars, schedVars>>

\* the listener threads have been started: a start() has gone past
\* "self.mouse_listener.start()"
ListenersStarted ==
    \E u \in Starters : loop[u].pc \in {"while", "sample", "idle", "sleep", "exited"}

\* start() in thread t: the listeners are started, which raises when they
\* were started before; then session_start is logged
RStartAnnounce(t) ==
    /\ loop[t].pc = "announce"
    /\ IF arg /\ ListenersStarted
       THEN /\ loop' = [loop EXCEPT ![t].pc = "raised"]
            /\ UNCHANGED <<listeners, activity_log>>
       ELSE /\ loop' = [loop EXCEPT ![t].pc = "while"]
            /\ listeners' = IF arg THEN "started" ELSE listeners
            /\ activity_log' = Append(activity_log, SystemEvent("session_start", "loop"))
    /\ UNCHANGED <<running, last_activity_time, current_app, current_window,
                   current_domain, app_start_time, stopper, truth, now, codeVars,
                   harnessVars, configVars, schedVars>>

\* _monitor_loop in thread t: "while self.running:"
RLoopCheck(t) ==
    /\ loop[t].pc = "while"
    /\ loop' = [loop EXCEPT ![t].pc = IF running THEN "sample" ELSE "exited"]
    /\ UNCHANGED <<running, last_activity_time, current_app, current_window,
                   current_domain, app_start_time, stopper, listeners, activity_log,
                   truth, now, codeVars, harnessVars, configVars, schedVars>>

\* _monitor_loop in thread t: the window is read and compared
RLoopSample(t, w) ==
    /\ loop[t].pc = "sample"
    /\ IF w.app # current_app \/ w.title # current_window \/ w.domain # current_domain
       THEN log_app_change(w)
       ELSE UNCHANGED <<current_app, current_window, current_domain, app_start_time,
                        activity_log>>
    /\ loop' = [loop EXCEPT ![t].pc = "idle"]
    /\ UNCHANGED <<running, last_activity_time, stopper, listeners, truth, now,
                   codeVars, harnessVars, configVars, schedVars>>

\* _monitor_loop in thread t: _check_idle_state, then the sleep begins
RLoopIdle(t) ==
    /\ loop[t].pc = "idle"
    /\ check_idle_state
    /\ loop' = [loop EXCEPT ![t].pc = "sleep", ![t].wake = now + PollTicks]
    /\ UNCHANGED <<running, current_app, current_window, current_domain,
                   app_start_time, stopper, listeners, truth, now, codeVars,
                   harnessVars, configVars, schedVars>>

\* _monitor_loop in thread t: the sleep returns
RLoopWake(t) ==
    /\ loop[t].pc = "sleep"
    /\ now >= loop[t].wake
    /\ loop' = [loop EXCEPT ![t].pc = "while"]
    /\ UNCHANGED <<running, last_activity_time, current_app, current_window,
                   current_domain, app_start_time, stopper, listeners, activity_log,
                   truth, now, codeVars, harnessVars, configVars, schedVars>>

\* time passes while no thread is inside start(), a tick or stop()
RestartAdvance ==
    /\ now < MaxRestartTime
    /\ stopper.pc = "ready"
    /\ \A t \in Starters :
          \/ loop[t].pc \in {"start", "returned", "raised", "exited"}
          \/ loop[t].pc = "sleep" /\ now < loop[t].wake + MaxLate
    /\ now' = now + 1
    /\ UNCHANGED <<codeVars, trackerVars, harnessVars, configVars, schedVars>>

NextRestart ==
    \/ \E t \in Starters : RStartFlag(t)
    \/ \E t \in Starters : RStartAnnounce(t)
    \/ \E t \in Starters : RLoopCheck(t)
    \/ \E t \in Starters, w \in RestartWindows : RLoopSample(t, w)
    \/ \E t \in Starters : RLoopIdle(t)
    \/ \E t \in Starters : RLoopWake(t)
    \/ StopFlag
    \/ StopFlush
    \/ StopEnd
    \/ RestartAdvance

SpecRestart == InitRestart /\ [][NextRestart]_vars

\* the threads inside the body of the poll loop: sample, transition, idle
\* check
InTick == {t \in Starters : loop[t].pc \in {"sample", "idle"}}

\* C26: ticks are strictly sequential: at any time at most one execution of
\* the poll-loop body is in progress, for any sequence of start() and stop()
\* calls.
C26_TicksSequential == Cardinality(InTick) <= 1

\* with a single call of start() the ticks are sequential
OneStarterSequential ==
    (\E t \in Starters : loop[t].pc = "start") => Cardinality(InTick) <= 1

-----------------------------------------------------------------------------
(* The Debounce Map and the threads of process_after_delay (Spec).  A      *)
(* thread at "process" has passed its check and is in _process_file_change *)
(* (the effect of the call takes place at TaskProcess); a thread at        *)
(* "clear" has returned from it and has not removed the entry yet.         *)

TasksOn(p) == {i \in 1..Len(tasks) : tasks[i].path = p}

\* the threads of p that are in _process_file_change
Processing(p) == {i \in TasksOn(p) : tasks[i].pc = "process"}

\* C27: the Snapshot Cache has a single writer at a time per path: at most
\* one Change Processor call for a given path is in progress at any moment.
C27_SingleWriterPerPath ==
    \A p \in PipePaths : Cardinality(Processing(p)) <= 1

\* thread i has passed its check and has not cleared the entry yet
BetweenCheckAndClear(i) == tasks[i].pc \in {"process", "clear"}

\* a raw event on p arrives in this step
EventArrives(p) ==
    /\ Len(raw_events') = Len(raw_events) + 1
    /\ raw_events'[Len(raw_events')].path = p

\* thread j passes its check in this step
PassesCheck(j) == tasks[j].pc = "sleep" /\ tasks'[j].pc = "process"

\* C28: the read of the Debounce Map entry, the equality check and the
\* clearing are atomic: between one thread's check and its clear no raw
\* event updates the entry of its path and no other thread of the path
\* passes the check.
C28_CheckClearAtomic ==
    [][\A i \in 1..Len(tasks) :
          BetweenCheckAndClear(i) =>
              /\ ~EventArrives(tasks[i].path)
              /\ \A j \in TasksOn(tasks[i].path) \ {i} : ~PassesCheck(j)]_vars

\* C29: Debounce Map entries are short-lived: once every delayed task
\* scheduled for a path has fired, the Debounce Map has no entry for the
\* path; an entry is there only while a task of its path is still to finish.
C29_EntriesShortLived ==
    \A p \in PipePaths :
        (\A i \in TasksOn(p) : tasks[i].pc = "done") => ~QueueHas(p)

C29_Witness ==
    /\ Len(tasks) = 2
    /\ AllTasksDone
    /\ Len(calls) = 1
    /\ calls[1].task = 2
    /\ raw_events[1].type # raw_events[2].type
    /\ change_queue = <<>>

-----------------------------------------------------------------------------
(* SpecShutdown: CodeLogger.start and CodeLogger.stop.  start() runs in a  *)
(* thread of its own (main.py:88), stop() is called from the main thread   *)
(* (main.py:78, 126).  Here running is the CodeLogger's flag, loop the     *)
(* thread in CodeLogger.start and stopper the thread calling               *)
(* CodeLogger.stop; cleared tells that a stop() has cleared the flag.      *)

InitShutdown ==
    /\ file_extensions = DefaultExtensions
    /\ ignored_dirs = DefaultIgnored
    /\ disk \in [PipePaths -> {NoFile, File(<<"x", NL>>, TRUE)}]
    /\ file_cache = <<>>
    /\ change_queue = <<>>
    /\ code_log = <<>>
    /\ tasks = <<>>
    /\ raw_events = <<>>
    /\ calls = <<>>
    /\ observer = "new"
    /\ running = FALSE
    /\ loop = [pc |-> "start"]
    /\ stopper = [pc |-> "ready", calls |-> 0, cleared |-> FALSE]
    /\ last_activity_time = 0
    /\ current_app = "None"
    /\ current_window = "None"
    /\ current_domain = "None"
    /\ app_start_time = -1
    /\ listeners = "new"
    /\ activity_log = <<>>
    /\ truth = <<>>
    /\ ParkConfig
    /\ ParkSched
    /\ ParkHarness
    /\ now = 0

\* CodeLogger.start: "if self.running: return", "self.running = True"
CodeStartFlag ==
    /\ loop.pc = "start"
    /\ running' = TRUE
    /\ loop' = [loop EXCEPT !.pc = IF running THEN "returned" ELSE "seed"]
    /\ UNCHANGED <<codeVars, stopper, last_activity_time, current_app, current_window,
                   current_domain, app_start_time, listeners, activity_log, truth,
                   harnessVars, configVars, schedVars, now>>

\* CodeLogger.start: self._initialize_file_cache()
CodeStartSeed ==
    /\ loop.pc = "seed"
    /\ file_cache' = InitializeFileCache(disk)
    /\ loop' = [loop EXCEPT !.pc = "observe"]
    /\ UNCHANGED <<file_extensions, ignored_dirs, change_queue, disk, code_log, tasks,
                   raw_events, calls, observer, running, stopper, last_activity_time,
                   current_app, current_window, current_domain, app_start_time,
                   listeners, activity_log, truth, harnessVars, configVars, schedVars, now>>

\* CodeLogger.start: self.observer.schedule(...), self.observer.start()
CodeStartObserver ==
    /\ loop.pc = "observe"
    /\ observer' = "started"
    /\ loop' = [loop EXCEPT !.pc = "wait"]
    /\ UNCHANGED <<file_extensions, ignored_dirs, file_cache, change_queue, disk,
                   code_log, tasks, raw_events, calls, running, stopper,
                   last_activity_time, current_app, current_window, current_domain,
                   app_start_time, listeners, activity_log, truth, harnessVars,
                   configVars, schedVars, now>>

\* CodeLogger.start: "while self.running: time.sleep(1)" ends
CodeStartReturn ==
    /\ loop.pc = "wait"
    /\ ~running
    /\ loop' = [loop EXCEPT !.pc = "returned"]
    /\ UNCHANGED <<codeVars, running, stopper, last_activity_time, current_app,
                   current_window, current_domain, app_start_time, listeners,
                   activity_log, truth, harnessVars, configVars, schedVars, now>>

\* CodeLogger.stop: "if not self.running: return", "self.running = False"
CodeStopFlag ==
    /\ stopper.pc = "ready"
    /\ stopper.calls < MaxStops
    /\ running' = FALSE
    /\ stopper' = [pc |-> IF running THEN "observer" ELSE "ready",
                   calls |-> stopper.calls + 1,
                   cleared |-> stopper.cleared \/ running]
    /\ UNCHANGED <<codeVars, loop, last_activity_time, current_app, current_window,
                   current_domain, app_start_time, listeners, activity_log, truth,
                   harnessVars, configVars, schedVars, now>>

\* CodeLogger.stop: "if self.observer.is_alive(): self.observer.stop();
\* self.observer.join()", and the return
CodeStopObserver ==
    /\ stopper.pc = "observer"
    /\ observer' = IF observer = "started" THEN "stopped" ELSE observer
    /\ stopper' = [stopper EXCEPT !.pc = "ready"]
    /\ UNCHANGED <<file_extensions, ignored_dirs, file_cache, change_queue, disk,
                   code_log, tasks, raw_events, calls, running, loop,
                   last_activity_time, current_app, current_window, current_domain,
                   app_start_time, listeners, activity_log, truth, harnessVars,
                   configVars, schedVars, now>>

NextShutdown ==
    \/ CodeStartFlag
    \/ CodeStartSeed
    \/ CodeStartObserver
    \/ CodeStartReturn
    \/ CodeStopFlag
    \/ CodeStopObserver
    \/ Next

SpecShutdown == InitShutdown /\ [][NextShutdown]_vars

\* a stop() that cleared the flag has returned
StopReturned == stopper.cleared /\ stopper.pc = "ready"

\* C30: shutdown is cooperative and complete: when the code logger's stop()
\* has cleared the running flag and returns, the filesystem observer has
\* been stopped and joined: it does not run, and it delivers no event.
C30_ShutdownComplete == StopReturned => observer # "started"

\* a stop() that finds the observer running stops it before it returns
StopsRunningObserver ==
    [][(stopper.pc = "observer" /\ stopper'.pc = "ready" /\ observer = "started")
          => observer' = "stopped"]_vars

\* the tracker, with a single start() (SpecTracker): once stop() has cleared
\* the flag no tick begins and the check of the loop ends it; stop() returns
\* with the listeners stopped, after the flush that C9 describes
TrackerStopsCooperatively ==
    [][/\ ~truth.open => ~(loop.pc # "sample" /\ loop'.pc = "sample")
       /\ (~truth.open /\ loop.pc = "while" /\ loop'.pc # "while") => loop'.pc = "exited"
       /\ (stopper.pc # "ready" /\ stopper'.pc = "ready") =>
              (stopper.pc = "end" /\ listeners' = "stopped")]_vars

-----------------------------------------------------------------------------
(* The life of a Snapshot Cache entry (SpecStart: the walk, then the live  *)
(* pipeline)                                                               *)

\* the walk of start() takes place in this step
SeedStep == observer = "new" /\ observer' = "seeded"

\* the step is a Change Processor call on p with one of the types
ProcOn(p, types) == ProcStep /\ NewCall.path = p /\ NewCall.type \in types

\* the call of this step has emitted an event
Logged == Len(code_log') = Len(code_log) + 1

\* C31: a path gets its cache entry at the initial tree walk or in a
\* processed Created/Modified observation, with the content read; every
\* logged modification replaces the entry by the new content; a processed
\* Deleted change removes it; no other step adds, changes or removes an
\* entry.
C31_CacheLifecycle ==
    [][\A p \in PipePaths :
          /\ (~CacheHas(p) /\ p \in DOMAIN file_cache') =>
                \/ SeedStep /\ file_cache'[p] = disk[p].content
                \/ /\ ProcOn(p, {"created", "modified"})
                   /\ file_cache'[p] = NewCall.file.content
          /\ (CacheHas(p) /\ p \in DOMAIN file_cache' /\ file_cache'[p] # file_cache[p]) =>
                /\ ProcOn(p, {"created", "modified"})
                /\ Logged
                /\ file_cache'[p] = NewCall.file.content
          /\ (CacheHas(p) /\ p \notin DOMAIN file_cache') => ProcOn(p, {"deleted"})
          /\ ProcOn(p, {"deleted"}) => p \notin DOMAIN file_cache'
          /\ (ProcOn(p, {"created", "modified"}) /\ Logged) =>
                /\ p \in DOMAIN file_cache'
                /\ file_cache'[p] = NewCall.file.content
                /\ Last(code_log').diff_content =
                       generate_diff(CacheGet(p), NewCall.file.content, p)]_vars

\* C31 witness: an entry the walk has seeded, replaced by a logged
\* modification, then removed by the processed deletion
C31_Witness ==
    /\ observer = "started"
    /\ Len(calls) = 2
    /\ calls[1].type = "modified"
    /\ calls[1].cached = <<"x", NL>>
    /\ calls[1].file.content = <<"x", NL, "y", NL>>
    /\ calls[2].type = "deleted"
    /\ calls[2].cached = <<"x", NL, "y", NL>>
    /\ Len(code_log) = 2
    /\ ~CacheHas(calls[2].path)

-----------------------------------------------------------------------------
\* the Change Processor calls on the path of raw event i made after the event
\* was recorded
CallsAfterEvent(i) ==
    {k \in CallsOn(raw_events[i].path) : calls[k].events >= i}

\* C32: no filesystem change is lost by the Debouncer: once every delayed
\* task has fired, every raw event recorded for a trackable path has been
\* followed by a Change Processor call for the path made after the event was
\* recorded, also an event that arrived while a task was between its check
\* and its clear.
C32_NoChangeLost ==
    AllTasksDone =>
        \A i \in 1..Len(raw_events) :
            should_track_file(raw_events[i].path) => CallsAfterEvent(i) # {}

-----------------------------------------------------------------------------
\* the AppFocus events emitted in this step; each reports the interval from
\* app_start_time, as the step finds it, to now
FocusEmitted ==
    {i \in (Len(activity_log) + 1)..Len(activity_log') :
        activity_log'[i].event_type = "app_focus"}

\* C33: no stretch of time is reported twice: the interval [focus start,
\* emission time] of an emitted AppFocus event begins no earlier than the
\* emission time of every AppFocus event emitted before it, under any
\* interleaving of the ticks with stop().
C33_FocusIntervalsDisjoint ==
    [][FocusEmitted # {} =>
          \A j \in Kinds("app_focus") : activity_log[j].time <= app_start_time]_vars

-----------------------------------------------------------------------------
\* the AppFocus and Idle events emitted in this step
SessionEventsEmitted ==
    {i \in (Len(activity_log) + 1)..Len(activity_log') :
        activity_log'[i].event_type \in {"app_focus", "idle"}}

\* C34: session_end is the last event of a session: once stop() has emitted
\* session_end, no AppFocus or Idle event is emitted, also when stop() runs
\* on another thread than the poll loop while a tick is in progress.
C34_SessionEndIsLast ==
    [][Kinds("session_end") # {} => SessionEventsEmitted = {}]_vars

-----------------------------------------------------------------------------
(* Sessions (SpecRestart).  A session begins with a start() that finds the *)
(* tracker not running and sets the flag; a start() that finds it running  *)
(* returns at once.                                                        *)

\* the threads whose start() began a session
SessionStarters == {t \in Starters : loop[t].pc \notin {"start", "returned"}}

\* no thread is inside start() or stop()
NoCallUnderWay ==
    /\ stopper.pc = "ready"
    /\ \A t \in Starters : loop[t].pc # "announce"

StopFlushes == {i \in Kinds("app_focus") : activity_log[i].by = "stop"}

\* C35: start() on a running tracker and stop() on a tracker that is not
\* running are no-ops: for any sequence of start() and stop() calls, each
\* session has emitted exactly one session_start and at most one
\* session_end, and stop() has flushed the focus interval at most once per
\* session, also when stop() is called twice in a row.
C35_RedundantCallsAreNoOps ==
    NoCallUnderWay =>
        /\ Cardinality(Kinds("session_start")) = Cardinality(SessionStarters)
        /\ Cardinality(Kinds("session_end")) <= Cardinality(SessionStarters)
        /\ Cardinality(StopFlushes) <= Cardinality(SessionStarters)

\* the same in a build without pynput, where start() cannot raise
C35_WithoutListeners == ~arg => C35_RedundantCallsAreNoOps

-----------------------------------------------------------------------------
(* The chain of diffs of a path (SpecSink, the Change Processor driven)    *)

\* call k has emitted an event: the log has grown by the next call, or by now
Emitted(k) ==
    IF k < Len(calls) THEN calls[k + 1].logged > calls[k].logged
    ELSE Len(code_log) > calls[k].logged

EmittedOn(p) == {k \in CallsOn(p) : Emitted(k)}

\* the content the event of call c leaves as the new content of its path
NewContent(c) == IF c.type = "deleted" THEN <<>> ELSE c.file.content

\* C36: the diffs emitted for a path form a chain: the old content the diff
\* of an emitted event was computed from is the new content of the event
\* emitted before it for the path, and the Snapshot Cache entry of the path
\* (no entry counting as the empty content) is the new content of the last
\* emitted event, also when a sink write fails.
C36_DiffChain ==
    \A p \in PipePaths :
        /\ \A k \in EmittedOn(p) :
              /\ code_log[calls[k].logged + 1].diff_content =
                     generate_diff(calls[k].cached, NewContent(calls[k]), p)
              /\ \A j \in EmittedOn(p) :
                    (j < k /\ \A i \in EmittedOn(p) : ~(j < i /\ i < k)) =>
                        calls[k].cached = NewContent(calls[j])
        /\ EmittedOn(p) # {} => CacheGet(p) = NewContent(calls[SetMax(EmittedOn(p))])

\* with a sink that does not fail the diffs do form a chain, under every
\* interleaving of the debounce tasks (Spec)
ChainWhileSinkUp == arg = <<>> => C36_DiffChain

-----------------------------------------------------------------------------
(* A sink that fails under a tick (SpecSink, the tracker driven)           *)

\* the step is the sample of a tick
SinkSampleStep == arg = <<"tracker">> /\ loop.pc = "sample" /\ loop'.pc # "sample"

\* the sink fails in this tick while the close-out AppFocus event of a
\* transition is emitted: an interval of a second or more is in progress
CloseOutFails == SinkSampleStep /\ res'.failed /\ FocusRecords("loop") # <<>>

\* C37: if the sink fails while a tick emits the close-out AppFocus event of
\* a transition, ActivityState (application, title, domain, focus start) is
\* left unchanged, nothing is emitted and the poll loop continues with its
\* sleep; an interval that is closed out, then or on a later tick, is
\* emitted with its full duration, from its focus start to now.
C37_FailedCloseOutKeepsState ==
    [][/\ CloseOutFails =>
              /\ ActivityState' = ActivityState
              /\ app_start_time' = app_start_time
              /\ activity_log' = activity_log
              /\ res'.val = "returned"
              /\ running'
              /\ loop'.pc = "sleep"
       /\ (SinkSampleStep /\ FocusEmitted # {}) =>
              /\ Cardinality(FocusEmitted) = 1
              /\ activity_log'[Len(activity_log) + 1] =
                     ActivityEvent("app_focus", current_app, current_window,
                                   current_domain, IntSeconds(now - app_start_time),
                                   "loop")]_vars

\* C37 witness: the tick at one poll interval has failed in the close-out of
\* the interval of chrome.exe that began at 0; the state is as before and
\* the loop sleeps
C37_Witness ==
    /\ arg = <<"tracker">>
    /\ res.done /\ res.failed /\ res.val = "returned"
    /\ now = PollTicks
    /\ loop.pc = "sleep" /\ loop.wake = now + PollTicks
    /\ current_app = "chrome.exe"
    /\ app_start_time = 0
    /\ activity_log = <<>>

-----------------------------------------------------------------------------
\* C38: after CodeLogger.stop() has returned (here: having stopped and
\* joined the observer), no further CodeChangeEvent is emitted and the
\* Snapshot Cache is no longer modified: a debounce task still pending when
\* stop() is called does not invoke the Change Processor afterwards.
C38_QuietAfterStop ==
    [][(StopReturned /\ observer = "stopped") =>
          /\ code_log' = code_log
          /\ file_cache' = file_cache
          /\ calls' = calls]_vars

\* what stop() does achieve: once the observer is stopped no raw event is
\* recorded and no debounce task is started
NoEventAfterStop ==
    [][observer = "stopped" => (raw_events' = raw_events /\ Len(tasks') = Len(tasks))]_vars

-----------------------------------------------------------------------------
(* SpecSched: the DailyScheduler.  The clock counts seconds here.  start() *)
(* creates a loop thread; stop() clears the flag and joins the thread for  *)
(* at most join_timeout; update_schedule_time() restarts a running         *)
(* scheduler.  scheduler holds: running (self.running), thread            *)
(* (self.scheduler_thread, an index of threads, 0 for None), summary_time, *)
(* auto_summarize, jobs (the number of jobs of the schedule module),       *)
(* threads (the loop threads created so far: pc and wake-up time) and      *)
(* caller (the thread that calls the methods: pc, the method, the deadline *)
(* of its wait, the number of calls made).                                 *)

scheduler_sleep == 60
join_timeout == 5
restart_wait == 1

MaxSchedCalls == 2
MaxSchedTime == 62

SummaryTimes == {"23:59", "08:00"}

Ready(calls_made) == [pc |-> "ready", op |-> "none", until |-> 0, calls |-> calls_made]

InitSched ==
    /\ ParkCode
    /\ ParkTracker
    /\ ParkConfig
    /\ ParkHarness
    /\ now = 0
    /\ \E auto \in BOOLEAN :
          scheduler = [running |-> FALSE, thread |-> 0, summary_time |-> "23:59",
                       auto_summarize |-> auto, jobs |-> 0, threads |-> <<>>,
                       caller |-> Ready(0)]

\* start() on the scheduler s: "if self.running: return", setup_schedule(),
\* "if not self.auto_summarize: return", the flag and the new thread
SchedStarted(s) ==
    IF s.running \/ ~s.auto_summarize THEN s
    ELSE [s EXCEPT !.jobs = 1,
                   !.running = TRUE,
                   !.threads = Append(s.threads, [pc |-> "while", wake |-> 0]),
                   !.thread = Len(s.threads) + 1]

\* stop() up to the join: the flag is cleared and the jobs are removed
SchedStopped(s) == [s EXCEPT !.running = FALSE, !.jobs = 0]

SchedUnchanged == UNCHANGED <<codeVars, trackerVars, harnessVars, configVars, now>>

\* a call of start()
SchedStart ==
    /\ scheduler.caller.pc = "ready"
    /\ scheduler.caller.calls < MaxSchedCalls
    /\ scheduler' = [SchedStarted(scheduler) EXCEPT
                        !.caller = Ready(scheduler.caller.calls + 1)]
    /\ SchedUnchanged

\* the caller goes on to "self.scheduler_thread.join(timeout=5)" of stop()
Joining(op, calls_made) ==
    [pc |-> "join", op |-> op, until |-> now + join_timeout, calls |-> calls_made]

\* a call of stop(): "if not self.running: return", then the flag, the jobs
\* and the join
SchedStop ==
    /\ scheduler.caller.pc = "ready"
    /\ scheduler.caller.calls < MaxSchedCalls
    /\ scheduler' =
          IF ~scheduler.running
          THEN [scheduler EXCEPT !.caller = Ready(scheduler.caller.calls + 1)]
          ELSE [SchedStopped(scheduler) EXCEPT
                   !.caller = Joining("stop", scheduler.caller.calls + 1)]
    /\ SchedUnchanged

\* a call of update_schedule_time(new_time): the time is set, and a running
\* scheduler is stopped
SchedUpdate(new_time) ==
    /\ scheduler.caller.pc = "ready"
    /\ scheduler.caller.calls < MaxSchedCalls
    /\ scheduler' =
          IF ~scheduler.running
          THEN [scheduler EXCEPT !.summary_time = new_time,
                                 !.caller = Ready(scheduler.caller.calls + 1)]
          ELSE [SchedStopped(scheduler) EXCEPT
                   !.summary_time = new_time,
                   !.caller = Joining("update", scheduler.caller.calls + 1)]
    /\ SchedUnchanged

\* threading.Thread.join(timeout) returns: the thread has ended, or the
\* timeout has passed
JoinOver ==
    \/ scheduler.threads[scheduler.thread].pc = "exited"
    \/ now >= scheduler.caller.until

\* the join of stop() returns; stop() returns, and update_schedule_time goes
\* on to "time.sleep(1)"
SchedJoined ==
    /\ scheduler.caller.pc = "join"
    /\ JoinOver
    /\ scheduler' =
          IF scheduler.caller.op = "stop"
          THEN [scheduler EXCEPT !.caller = Ready(scheduler.caller.calls)]
          ELSE [scheduler EXCEPT !.caller.pc = "wait",
                                 !.caller.until = now + restart_wait]
    /\ SchedUnchanged

\* update_schedule_time: the sleep is over, "self.start()"
SchedRestart ==
    /\ scheduler.caller.pc = "wait"
    /\ now >= scheduler.caller.until
    /\ scheduler' = [SchedStarted(scheduler) EXCEPT
                        !.caller = Ready(scheduler.caller.calls)]
    /\ SchedUnchanged

\* _run_scheduler in thread i: "while self.running:"
SchedLoopCheck(i) ==
    /\ scheduler.threads[i].pc = "while"
    /\ scheduler' = [scheduler EXCEPT
                        !.threads[i].pc = IF scheduler.running THEN "pending"
                                          ELSE "exited"]
    /\ SchedUnchanged

\* _run_scheduler in thread i: schedule.run_pending(), then the sleep begins
SchedRunPending(i) ==
    /\ scheduler.threads[i].pc = "pending"
    /\ scheduler' = [scheduler EXCEPT !.threads[i].pc = "sleep",
                                      !.threads[i].wake = now + scheduler_sleep]
    /\ SchedUnchanged

\* _run_scheduler in thread i: "time.sleep(60)" returns
SchedLoopWake(i) ==
    /\ scheduler.threads[i].pc = "sleep"
    /\ now >= scheduler.threads[i].wake
    /\ scheduler' = [scheduler EXCEPT !.threads[i].pc = "while"]
    /\ SchedUnchanged

\* a second passes: no thread has a step to take at this time
SchedAdvance ==
    /\ now < MaxSchedTime
    /\ \A i \in 1..Len(scheduler.threads) :
          \/ scheduler.threads[i].pc = "exited"
          \/ scheduler.threads[i].pc = "sleep" /\ now < scheduler.threads[i].wake
    /\ \/ scheduler.caller.pc = "ready"
       \/ scheduler.caller.pc = "join" /\ ~JoinOver
       \/ scheduler.caller.pc = "wait" /\ now < scheduler.caller.until
    /\ now' = now + 1
    /\ UNCHANGED <<codeVars, trackerVars, harnessVars, configVars, schedVars>>

NextSched ==
    \/ SchedStart
    \/ SchedStop
    \/ \E t \in SummaryTimes : SchedUpdate(t)
    \/ SchedJoined
    \/ SchedRestart
    \/ \E i \in 1..Len(scheduler.threads) : SchedLoopCheck(i)
    \/ \E i \in 1..Len(scheduler.threads) : SchedRunPending(i)
    \/ \E i \in 1..Len(scheduler.threads) : SchedLoopWake(i)
    \/ SchedAdvance

SpecSched == InitSched /\ [][NextSched]_vars

\* thread i passes "while self.running" in this step and goes on to
\* schedule.run_pending()
GoesOn(i) ==
    /\ i <= Len(scheduler.threads)
    /\ scheduler.threads[i].pc = "while"
    /\ scheduler'.threads[i].pc = "pending"

\* C39: at most one DailyScheduler loop thread executes the scheduler loop
\* at any time, for any sequence of start(), stop() and
\* update_schedule_time() calls: only the thread of the last start() goes on
\* past the check of the loop, every earlier loop thread having ended or
\* ending at its next check; the loop thread of before a restart does not
\* resume running pending jobs.
C39_OneSchedulerLoop ==
    [][\A i \in 1..Len(scheduler'.threads) : GoesOn(i) => i = scheduler.thread]_vars

\* while the flag stays cleared no loop thread goes on: a stopped loop ends
\* at its next check
StoppedLoopEnds ==
    [][~scheduler.running =>
          \A i \in 1..Len(scheduler'.threads) : ~GoesOn(i)]_vars

====
